---------------------------- MODULE Spec2Model ----------------------------
(***************************************************************************)
(* Model of the request admission-control gateway of                      *)
(* app/handlers/gate.py: the rule loader (load_schemas, normalize_rule),  *)
(* the pattern compiler, the rule matcher, the four field validators, the *)
(* Flask before_request hook (gate_middleware.validate_request) and the   *)
(* start-up routine init_gate.                                            *)
(*                                                                         *)
(* Python values are tagged records, each tag with its own payload field:  *)
(*   "absent" a key that is not in a mapping, "none" Python None,          *)
(*   "str" and "atom" a string, "int" a number, "bool", "list" a list,     *)
(*   "dict" a mapping.                                                     *)
(* A "str" is a sequence of characters: the strings matched by regular     *)
(* expressions (paths, path patterns, field values, field patterns; a      *)
(* pattern is a sequence of pattern tokens) and the header values (a       *)
(* sequence of value tokens, see TokLen).  An "atom" is a string taken as  *)
(* a whole: method names and header names, with explicit upper()/lower()   *)
(* tables.  Field names and rule names are atoms too.                      *)
(***************************************************************************)
EXTENDS Integers, Sequences, FiniteSets, TLC

VARIABLES
    document,                 \* the content of schemas.yaml on disk
    schemas_cache,            \* gate.py:24  _schemas_cache
    compiled_patterns_cache,  \* gate.py:25  _compiled_patterns_cache
    gate_healthy,             \* gate.py:28  _gate_healthy
    gate_init_error,          \* gate.py:29  _gate_init_error
    hooks,                    \* number of before_request hooks installed on the app
    gate_context,             \* current_app.gate_context
    pc,                       \* "boot" before init_gate has run, "serving" after
    doc_reads,                \* how often schemas.yaml has been opened and parsed
    threads,                  \* the threads inside load_schemas: position and locals
    last,                     \* the last call observed: its input and its result
    service,                  \* what the configuration service answers at present
    config_cache,             \* config_read.py:31  ConfigReader._cache
    config_service_ready_cache, \* config_read.py:34  _config_service_ready_cache
    lru_cache,                \* config_read.py:249  the lru_cache of read_config_param
    applied_migrations,       \* the table applied_migrations: file name -> status
    migration_status_cache,   \* migration.py:20  migration_status_cache
    call                      \* the maintenance call in progress: position and locals

vars == <<document, schemas_cache, compiled_patterns_cache, gate_healthy,
          gate_init_error, hooks, gate_context, pc, doc_reads, threads, last,
         service, config_cache, config_service_ready_cache, lru_cache,
         applied_migrations, migration_status_cache, call>>

\* The state of the gate, and the state of the maintenance modules.
gate == <<document, schemas_cache, compiled_patterns_cache, gate_healthy,
         gate_init_error, hooks, gate_context, pc, doc_reads, threads>>
maintenance == <<service, config_cache, config_service_ready_cache, lru_cache,
                 applied_migrations, migration_status_cache, call>>

----------------------------------------------------------------------------
(* Python values *)

Absent == [t |-> "absent"]
PyNone == [t |-> "none"]
PyTrue == [t |-> "bool", b |-> TRUE]
PyFalse == [t |-> "bool", b |-> FALSE]
Str(s) == [t |-> "str", s |-> s]
\* A number carries its decimal digits: Num(<<"4", "2">>) is 42.
Num(n) == [t |-> "int", n |-> n]
Atom(a) == [t |-> "atom", a |-> a]
List(l) == [t |-> "list", l |-> l]
Dict(d) == [t |-> "dict", d |-> d]

\* The mapping with no keys ({} in Python); a mapping is the sequence of its
\* items [k |-> key, p |-> value] in insertion order.
EmptyMap == <<>>

\* Python truthiness (bool(x)) of a tagged value.
Truthy(x) ==
    CASE x.t \in {"absent", "none"} -> FALSE
      [] x.t = "bool" -> x.b
      [] x.t = "str" -> x.s # <<>>
      [] x.t = "atom" -> x.a # ""
      [] x.t = "int" -> x.n # <<"0">>
      [] x.t = "list" -> x.l # <<>>
      [] x.t = "dict" -> x.d # <<>>
      [] OTHER -> TRUE

\* d.get(key, default) on a field that may be absent.
GetOr(x, default) == IF x.t = "absent" THEN default ELSE x

\* str.upper() on the method names of the model.
Upper(s) ==
    CASE s \in {"get", "Get", "GET"} -> "GET"
      [] s \in {"post", "Post", "POST"} -> "POST"
      [] s \in {"put", "PUT"} -> "PUT"
      [] OTHER -> s

\* str.lower() on the header names of the model.
Lower(s) ==
    CASE s \in {"X-Key", "X-KEY", "x-key"} -> "x-key"
      [] s \in {"X-Alt", "X-ALT", "x-alt"} -> "x-alt"
      [] s \in {"Rqid", "RQID", "rqid"} -> "rqid"
      [] s \in {"Accept", "accept"} -> "accept"
      [] OTHER -> s

\* The name request.headers yields for a header the client sent
\* (werkzeug's EnvironHeaders: the WSGI key, title-cased).
Title(s) ==
    CASE s \in {"X-Key", "X-KEY", "x-key"} -> "X-Key"
      [] s \in {"X-Alt", "X-ALT", "x-alt"} -> "X-Alt"
      [] s \in {"Rqid", "RQID", "rqid"} -> "Rqid"
      [] s \in {"Accept", "accept"} -> "Accept"
      [] OTHER -> s

EnvironHeaders(sent) ==
    [i \in 1..Len(sent) |-> [name |-> Title(sent[i].name), value |-> sent[i].value]]

----------------------------------------------------------------------------
(* Regular expressions: the fragment of Python's re the model uses.        *)
(* A pattern is a sequence of tokens: a literal character, "$" (end of     *)
(* string), ".*" (any run), "\\d+" (one or more digits), or "(" (a group   *)
(* that is never closed: re.error).                                        *)

Digits == {"0", "1", "2", "4", "5"}

\* re.compile(pattern) raises re.error.
ReError(p) == \E i \in 1..Len(p) : p[i] = "("

\* Does pattern p match a prefix of string s (re.match: anchored at
\* position 0 only)?
RECURSIVE ReMatch(_, _)
ReMatch(p, s) ==
    IF p = <<>> THEN TRUE
    ELSE LET a == Head(p)
             r == Tail(p)
         IN  CASE a = "$" -> s = <<>> /\ ReMatch(r, s)
               [] a = ".*" ->
                    \E k \in 0..Len(s) : ReMatch(r, SubSeq(s, k + 1, Len(s)))
               [] a = "\\d+" ->
                    \E k \in 1..Len(s) :
                        /\ \A i \in 1..k : s[i] \in Digits
                        /\ ReMatch(r, SubSeq(s, k + 1, Len(s)))
               [] OTHER -> s # <<>> /\ Head(s) = a /\ ReMatch(r, Tail(s))

----------------------------------------------------------------------------
(* normalize_rule *)

\* A call that either returns a value or raises.
Ok(x) == [ok |-> TRUE, val |-> x]
Raised == [ok |-> FALSE, val |-> PyNone]

\* headers.append({'name': header.get('name','').lower(),
\*                 'value': header.get('value','')}) for the dict entries.
RECURSIVE NormalizeHeaders(_)
NormalizeHeaders(hs) ==
    IF hs = <<>> THEN Ok(<<>>)
    ELSE LET h == Head(hs)
             rest == NormalizeHeaders(Tail(hs))
         IN  IF ~rest.ok THEN Raised
             ELSE IF h.t # "dict" THEN rest
             ELSE LET n == GetOr(h.d.name, Atom(""))
                      val == GetOr(h.d.value, Str(<<>>))
                  IN  IF n.t # "atom" THEN Raised  \* None.lower(): AttributeError
                      ELSE Ok(<<[name |-> Lower(n.a), value |-> val]>> \o rest.val)

\* d[k] = p on a mapping kept as the sequence of its items in insertion
\* order (a Python dict): an existing key keeps its place.
DictSet(d, k, p) ==
    IF \E i \in 1..Len(d) : d[i].k = k
    THEN [i \in 1..Len(d) |-> IF d[i].k = k THEN [k |-> k, p |-> p] ELSE d[i]]
    ELSE Append(d, [k |-> k, p |-> p])

Keys(d) == {d[i].k : i \in 1..Len(d)}
DictGet(d, k) == d[CHOOSE i \in 1..Len(d) : d[i].k = k].p

RECURSIVE DictUpdate(_, _)
DictUpdate(d, items) ==
    IF items = <<>> THEN d
    ELSE DictUpdate(DictSet(d, Head(items).k, Head(items).p), Tail(items))

\* The body_fields dict built from a list of field declarations.
RECURSIVE BodyFields(_)
BodyFields(fs) ==
    IF fs = <<>> THEN EmptyMap
    ELSE LET f == fs[Len(fs)]
             before == BodyFields(SubSeq(fs, 1, Len(fs) - 1))
         IN  CASE f.t = "dict" -> DictUpdate(before, f.d)
               [] f.t = "atom" -> DictSet(before, f.a, Str(<<".*">>))
               [] OTHER -> before

NormalizeBody(raw) ==
    LET body == IF Truthy(raw) THEN raw ELSE List(<<>>)
    IN  CASE body.t = "str" /\ body.s = <<"*">> -> Str(<<"*">>)
          [] ~Truthy(body) -> Dict(EmptyMap)
          [] body.t = "list" -> Dict(BodyFields(body.l))
          [] OTHER -> body

Normalized(r, hs) ==
    IF ~hs.ok THEN Raised
    ELSE Ok([path |-> GetOr(r.path, Str(<<>>)),
             method |-> IF Truthy(r.method) THEN Atom(Upper(r.method.a))
                        ELSE PyNone,
             headers |-> hs.val,
             body |-> NormalizeBody(r.body)])

\* The normalized rule, or an exception.
normalize_rule(rule) ==
    IF rule.t # "dict" THEN Raised                \* rule.get: AttributeError
    ELSE IF Truthy(rule.d.method) /\ rule.d.method.t # "atom"
    THEN Raised                                   \* int.upper: AttributeError
    ELSE IF ~Truthy(rule.d.headers) THEN Normalized(rule.d, Ok(<<>>))
    ELSE IF rule.d.headers.t # "list" THEN Raised \* not iterable: TypeError
    ELSE Normalized(rule.d, NormalizeHeaders(rule.d.headers.l))

----------------------------------------------------------------------------
(* load_schemas *)

\* f'unnamed_{idx}'
Unnamed(idx) == Atom("unnamed_" \o ToString(idx))

\* One iteration of the loop over api_rules (idx is 0-based): the rules so
\* far, with the normalized entry appended unless it is skipped.
Loaded(entry, idx, normalized_rule) ==
    [name |-> GetOr(entry.d.name, Unnamed(idx)),
     path |-> normalized_rule.path,
     method |-> normalized_rule.method,
     headers |-> normalized_rule.headers,
     body |-> normalized_rule.body,
     rqid |-> GetOr(entry.d.rule.d.rqid, PyFalse)]

AppendIfOk(rules, idx, entry, n) ==
    IF n.ok THEN Append(rules, Loaded(entry, idx, n.val)) ELSE rules

\* Mutant: an entry that is skipped drops the rules loaded before it.
LoadEntry_restart(rules, idx, entry) ==
    IF entry.t = "dict" /\ entry.d.rule.t # "absent"
    THEN AppendIfOk(rules, idx, entry, normalize_rule(entry.d.rule))
    ELSE <<>>

LoadEntry(rules, idx, entry) ==
    IF entry.t = "dict" /\ entry.d.rule.t # "absent"
    THEN AppendIfOk(rules, idx, entry, normalize_rule(entry.d.rule))
    ELSE rules

RECURSIVE NormalizedRules(_)
NormalizedRules(api) ==
    IF api = <<>> THEN <<>>
    ELSE LoadEntry(NormalizedRules(SubSeq(api, 1, Len(api) - 1)),
                   Len(api) - 1, api[Len(api)])

\* The error message load_schemas records for a document it rejects.
LoadErrorOf(doc) ==
    CASE doc.t = "missing" -> Atom("unexpected: schema file not found")
      [] doc.t = "yamlerror" -> Atom("yaml parse error")
      [] doc.t = "nogate" -> Atom("unexpected: root key 'gate' required")
      [] doc.t = "gatenull" -> Atom("unexpected: NoneType has no attribute get")
      [] doc.t = "apinotlist" -> Atom("unexpected: 'gate.api' must be a list")
      [] OTHER -> PyNone

\* load_schemas() called in the state st = [cache, healthy, error, reads]
\* with the document doc on disk: the state it leaves, whether it raised
\* GateValidationError, and the rule list it returned.
Cached(st, rules) ==
    [st |-> [cache |-> List(rules), healthy |-> TRUE, error |-> PyNone,
             reads |-> st.reads + 1],
     raised |-> FALSE, error |-> PyNone, rules |-> rules]

\* Mutant: the cache is not consulted, every call reads the document.
load_schemas_uncached(st, doc) ==
    IF doc.t = "ok" THEN Cached(st, NormalizedRules(doc.v))
    ELSE [st |-> [cache |-> st.cache, healthy |-> FALSE,
                  error |-> LoadErrorOf(doc),
                  reads |-> IF doc.t = "missing" THEN st.reads
                            ELSE st.reads + 1],
          raised |-> TRUE, error |-> LoadErrorOf(doc), rules |-> <<>>]

\* Mutant: a failed load caches an empty table.
load_schemas_caches_failure(st, doc) ==
    IF st.cache.t # "none"
    THEN [st |-> st, raised |-> FALSE, error |-> PyNone, rules |-> st.cache.l]
    ELSE IF doc.t = "ok" THEN Cached(st, NormalizedRules(doc.v))
    ELSE [st |-> [cache |-> List(<<>>), healthy |-> FALSE,
                  error |-> LoadErrorOf(doc),
                  reads |-> IF doc.t = "missing" THEN st.reads
                            ELSE st.reads + 1],
          raised |-> TRUE, error |-> LoadErrorOf(doc), rules |-> <<>>]

\* Mutant: the load compiles the path patterns and fails on one that is not
\* a regular expression.
load_schemas_compiling(st, doc) ==
    IF st.cache.t # "none"
    THEN [st |-> st, raised |-> FALSE, error |-> PyNone, rules |-> st.cache.l]
    ELSE IF /\ doc.t = "ok"
            /\ \A i \in 1..Len(NormalizedRules(doc.v)) :
                   \/ NormalizedRules(doc.v)[i].path.t # "str"
                   \/ ~ReError(NormalizedRules(doc.v)[i].path.s)
    THEN Cached(st, NormalizedRules(doc.v))
    ELSE [st |-> [cache |-> st.cache, healthy |-> FALSE,
                  error |-> Atom("unexpected: bad pattern"),
                  reads |-> IF doc.t = "missing" THEN st.reads
                            ELSE st.reads + 1],
          raised |-> TRUE, error |-> Atom("unexpected: bad pattern"),
          rules |-> <<>>]

load_schemas(st, doc) ==
    IF st.cache.t # "none"
    THEN [st |-> st, raised |-> FALSE, error |-> PyNone, rules |-> st.cache.l]
    ELSE IF doc.t = "ok" THEN Cached(st, NormalizedRules(doc.v))
    ELSE [st |-> [cache |-> st.cache, healthy |-> FALSE,
                  error |-> LoadErrorOf(doc),
                  reads |-> IF doc.t = "missing" THEN st.reads
                            ELSE st.reads + 1],
          raised |-> TRUE, error |-> LoadErrorOf(doc), rules |-> <<>>]

----------------------------------------------------------------------------
(* compile_path_pattern and find_matching_rule *)

\* re.compile(p): the compiled pattern remembers the text it came from.
Compiled(p) == [re |-> p]

\* compile_path_pattern(pattern) with the cache `cache` (a function from
\* pattern texts to compiled patterns).
compile_path_pattern(pattern, cache) ==
    IF pattern \in DOMAIN cache
    THEN [ok |-> TRUE, val |-> cache[pattern], cache |-> cache]
    ELSE IF pattern.t # "str" \/ ReError(pattern.s)
    THEN [ok |-> FALSE, val |-> PyNone, cache |-> cache]
    ELSE [ok |-> TRUE, val |-> Compiled(pattern.s),
          cache |-> (pattern :> Compiled(pattern.s)) @@ cache]

\* The scan of find_matching_rule from rule i on: idx is the position of
\* the rule returned (0: None), ok is FALSE when a compilation raised.
RECURSIVE ScanRules(_, _, _, _)
\* Mutant: a pattern that cannot be compiled is skipped as a rule that does
\* not match, and the scan goes on.
ScanStep_skips(rules, i, request_path, c) ==
    IF ~c.ok THEN ScanRules(rules, i + 1, request_path, c.cache)
    ELSE IF ReMatch(c.val.re, request_path)
    THEN [ok |-> TRUE, idx |-> i, cache |-> c.cache]
    ELSE ScanRules(rules, i + 1, request_path, c.cache)

ScanStep(rules, i, request_path, c) ==
    IF ~c.ok THEN [ok |-> FALSE, idx |-> 0, cache |-> c.cache]
    ELSE IF ReMatch(c.val.re, request_path)
    THEN [ok |-> TRUE, idx |-> i, cache |-> c.cache]
    ELSE ScanRules(rules, i + 1, request_path, c.cache)

ScanRules(rules, i, request_path, cache) ==
    IF i > Len(rules) THEN [ok |-> TRUE, idx |-> 0, cache |-> cache]
    ELSE IF ~Truthy(rules[i].path)
    THEN ScanRules(rules, i + 1, request_path, cache)
    ELSE ScanStep(rules, i, request_path,
                  compile_path_pattern(rules[i].path, cache))

\* Mutant: a path no rule matches falls through to the last rule.
FallThrough(r, n) == IF r.ok /\ r.idx = 0 /\ n > 0 THEN [r EXCEPT !.idx = n] ELSE r
find_matching_rule_fallthrough(rules, request_path, cache) ==
    FallThrough(ScanRules(rules, 1, request_path, cache), Len(rules))

\* Mutant: the scan runs from the last rule to the first (last match wins).
RECURSIVE ScanBack(_, _, _, _)
ScanBackStep(rules, i, request_path, c) ==
    IF ~c.ok THEN [ok |-> FALSE, idx |-> 0, cache |-> c.cache]
    ELSE IF ReMatch(c.val.re, request_path)
    THEN [ok |-> TRUE, idx |-> i, cache |-> c.cache]
    ELSE ScanBack(rules, i - 1, request_path, c.cache)
ScanBack(rules, i, request_path, cache) ==
    IF i < 1 THEN [ok |-> TRUE, idx |-> 0, cache |-> cache]
    ELSE IF ~Truthy(rules[i].path)
    THEN ScanBack(rules, i - 1, request_path, cache)
    ELSE ScanBackStep(rules, i, request_path,
                      compile_path_pattern(rules[i].path, cache))
find_matching_rule_lastmatch(rules, request_path, cache) ==
    ScanBack(rules, Len(rules), request_path, cache)

find_matching_rule(rules, request_path, cache) ==
    ScanRules(rules, 1, request_path, cache)

----------------------------------------------------------------------------
(* The four validators *)

validate_method(allowed_method, request_method) ==
    IF allowed_method.t = "none" THEN FALSE
    ELSE Upper(request_method) = Upper(allowed_method.a)

\* Length and kind of the tokens header values are made of: "h8" is a run
\* of 8 hexadecimal digits, "a" and "b" are single hexadecimal digits,
\* "not-a-uuid" is text that is not hexadecimal.
TokLen(tok) ==
    CASE tok = "h4" -> 4
      [] tok = "h8" -> 8
      [] tok = "h11" -> 11
      [] tok = "h12" -> 12
      [] tok = "h32" -> 32
      [] tok = "urn:" -> 4
      [] tok = "uuid:" -> 5
      [] tok = "not-a-uuid" -> 10
      [] tok = "zzzzzzzzzzzzzzzzzzzzzzzzzzzzzzzz" -> 32
      [] OTHER -> 1

TokHex(tok) == tok \in {"h4", "h8", "h11", "h12", "h32", "a", "b", "A"}

RECURSIVE Without(_, _)
Without(s, toks) ==
    IF s = <<>> THEN <<>>
    ELSE IF Head(s) \in toks THEN Without(Tail(s), toks)
    ELSE <<Head(s)>> \o Without(Tail(s), toks)

RECURSIVE LStrip(_, _)
LStrip(s, toks) ==
    IF s # <<>> /\ Head(s) \in toks THEN LStrip(Tail(s), toks) ELSE s

RECURSIVE RStrip(_, _)
RStrip(s, toks) ==
    IF s # <<>> /\ s[Len(s)] \in toks
    THEN RStrip(SubSeq(s, 1, Len(s) - 1), toks) ELSE s

RECURSIVE StrLen(_)
StrLen(s) == IF s = <<>> THEN 0 ELSE TokLen(Head(s)) + StrLen(Tail(s))

\* uuid.UUID(value) returns (does not raise ValueError): the text without
\* 'urn:' and 'uuid:', stripped of braces and without hyphens, is 32
\* hexadecimal digits.
UuidParses(value) ==
    LET hex == Without(RStrip(LStrip(Without(value, {"urn:", "uuid:"}),
                                     {"{", "}"}), {"{", "}"}), {"-"})
    IN  StrLen(hex) = 32 /\ \A i \in 1..Len(hex) : TokHex(hex[i])

\* request_headers is the sequence of the request's headers
\* [name, value], in the order request.headers.keys() yields them.
HeaderValue(request_headers, name) ==
    LET i == CHOOSE j \in 1..Len(request_headers) :
                 Lower(request_headers[j].name) = Lower(name)
    IN  request_headers[i].value

\* Mutant: the header has to be there, its value is not parsed.
validate_rqid_presence(expected_rqid, request_headers) ==
    IF ~Truthy(expected_rqid) THEN TRUE
    ELSE \E j \in 1..Len(request_headers) : Lower(request_headers[j].name) = "rqid"

validate_rqid(expected_rqid, request_headers) ==
    IF ~Truthy(expected_rqid) THEN TRUE
    ELSE IF ~\E j \in 1..Len(request_headers) :
                 Lower(request_headers[j].name) = "rqid"
    THEN FALSE
    ELSE LET j == CHOOSE k \in 1..Len(request_headers) :
                      /\ Lower(request_headers[k].name) = "rqid"
                      /\ \A l \in 1..(k - 1) :
                             Lower(request_headers[l].name) # "rqid"
         IN  UuidParses(HeaderValue(request_headers, request_headers[j].name))

\* The expected_pairs multimap of validate_headers_exact: the values
\* declared for a lower-cased name.
ExpectedValues(expected_headers, name) ==
    {expected_headers[i].value : i \in {j \in 1..Len(expected_headers) :
                                            Lower(expected_headers[j].name) = name}}

\* The walk over the request's headers from header i on, found_match so far.
RECURSIVE WalkHeaders(_, _, _, _)
WalkHeaders(expected_headers, request_headers, i, found_match) ==
    IF i > Len(request_headers) THEN found_match
    ELSE LET header_name_lower == Lower(request_headers[i].name)
             actual_value ==
                 Str(HeaderValue(request_headers, request_headers[i].name))
             expected_values == ExpectedValues(expected_headers, header_name_lower)
         IN  IF expected_values = {}
             THEN WalkHeaders(expected_headers, request_headers, i + 1, found_match)
             ELSE IF actual_value \in expected_values
             THEN IF found_match THEN FALSE
                  ELSE WalkHeaders(expected_headers, request_headers, i + 1, TRUE)
             ELSE FALSE

\* Mutant: a second matching header is not counted against the request.
RECURSIVE WalkHeadersLenient(_, _, _, _)
WalkHeadersLenient(expected_headers, request_headers, i, found_match) ==
    IF i > Len(request_headers) THEN found_match
    ELSE IF ExpectedValues(expected_headers, Lower(request_headers[i].name)) = {}
    THEN WalkHeadersLenient(expected_headers, request_headers, i + 1, found_match)
    ELSE IF Str(request_headers[i].value)
               \in ExpectedValues(expected_headers, Lower(request_headers[i].name))
    THEN WalkHeadersLenient(expected_headers, request_headers, i + 1, TRUE)
    ELSE FALSE
validate_headers_exact_lenient(expected_headers, request_headers) ==
    IF expected_headers = <<>> THEN TRUE
    ELSE IF \E i \in 1..Len(expected_headers) :
                \/ Lower(expected_headers[i].name) = ""
                \/ ~Truthy(expected_headers[i].value)
    THEN FALSE
    ELSE WalkHeadersLenient(expected_headers, request_headers, 1, FALSE)

\* Mutant: a header with a declared name and an undeclared value is passed
\* over.
RECURSIVE WalkHeadersForgiving(_, _, _, _)
WalkHeadersForgiving(expected_headers, request_headers, i, found_match) ==
    IF i > Len(request_headers) THEN found_match
    ELSE IF Str(request_headers[i].value)
               \in ExpectedValues(expected_headers, Lower(request_headers[i].name))
    THEN IF found_match THEN FALSE
         ELSE WalkHeadersForgiving(expected_headers, request_headers, i + 1, TRUE)
    ELSE WalkHeadersForgiving(expected_headers, request_headers, i + 1, found_match)
validate_headers_exact_forgiving(expected_headers, request_headers) ==
    IF expected_headers = <<>> THEN TRUE
    ELSE IF \E i \in 1..Len(expected_headers) :
                \/ Lower(expected_headers[i].name) = ""
                \/ ~Truthy(expected_headers[i].value)
    THEN FALSE
    ELSE WalkHeadersForgiving(expected_headers, request_headers, 1, FALSE)

\* Mutant: a declared entry without a name or a value is left out of the
\* check instead of failing it.
validate_headers_exact_skipping(expected_headers, request_headers) ==
    IF expected_headers = <<>> THEN TRUE
    ELSE WalkHeaders(SelectSeq(expected_headers,
                               LAMBDA h : Lower(h.name) # "" /\ Truthy(h.value)),
                     request_headers, 1, FALSE)

validate_headers_exact(expected_headers, request_headers) ==
    IF expected_headers = <<>> THEN TRUE
    ELSE IF \E i \in 1..Len(expected_headers) :
                \/ Lower(expected_headers[i].name) = ""
                \/ ~Truthy(expected_headers[i].value)
    THEN FALSE
    ELSE WalkHeaders(expected_headers, request_headers, 1, FALSE)

\* str(value) if value is not None else ""
PyStr(value) ==
    CASE value.t = "none" -> <<>>
      [] value.t = "bool" -> IF value.b THEN <<"T", "r", "u", "e">>
                             ELSE <<"F", "a", "l", "s", "e">>
      [] value.t = "int" -> value.n
      [] OTHER -> value.s

\* validate_field: the boolean it returns, or the exception it lets out
\* (pattern.lower() on a pattern that is not a string: AttributeError).
validate_field(value, pattern) ==
    IF pattern.t # "str" THEN Raised
    ELSE IF ReError(pattern.s) THEN Ok(FALSE)
    ELSE Ok(ReMatch(pattern.s, PyStr(value)))

\* The loop over expected_body.items() from item i on.
RECURSIVE CheckFields(_, _, _)
CheckFields(expected, actual, i) ==
    IF i > Len(expected) THEN Ok(TRUE)
    ELSE IF expected[i].k \notin Keys(actual) THEN Ok(FALSE)
    ELSE LET f == validate_field(DictGet(actual, expected[i].k), expected[i].p)
         IN  IF ~f.ok THEN Raised
             ELSE IF ~f.val THEN Ok(FALSE)
             ELSE CheckFields(expected, actual, i + 1)

\* Mutant: fields the rule does not declare are ignored.
validate_body_structure_extra(expected_body, actual_body) ==
    IF expected_body = Str(<<"*">>) THEN Ok(TRUE)
    ELSE IF expected_body = Dict(EmptyMap) THEN Ok(actual_body = EmptyMap)
    ELSE IF expected_body.t = "dict"
    THEN IF ~(Keys(expected_body.d) \subseteq Keys(actual_body)) THEN Ok(FALSE)
         ELSE CheckFields(expected_body.d, actual_body, 1)
    ELSE Ok(FALSE)

\* Mutant: a rule that expects no body lets any body through.
validate_body_structure_anybody(expected_body, actual_body) ==
    IF expected_body = Str(<<"*">>) THEN Ok(TRUE)
    ELSE IF expected_body = Dict(EmptyMap) THEN Ok(TRUE)
    ELSE IF expected_body.t = "dict"
    THEN IF Keys(expected_body.d) # Keys(actual_body) THEN Ok(FALSE)
         ELSE CheckFields(expected_body.d, actual_body, 1)
    ELSE Ok(FALSE)

\* validate_body_structure(expected_body, actual_body); actual_body is a
\* mapping (the items of a dict).
validate_body_structure(expected_body, actual_body) ==
    IF expected_body = Str(<<"*">>) THEN Ok(TRUE)
    ELSE IF expected_body = Dict(EmptyMap) THEN Ok(actual_body = EmptyMap)
    ELSE IF expected_body.t = "dict"
    THEN IF Keys(expected_body.d) # Keys(actual_body) THEN Ok(FALSE)
         ELSE CheckFields(expected_body.d, actual_body, 1)
    ELSE Ok(FALSE)

\* extract_request_body() for a request body [ctype, payload]: ctype says
\* which branch the request takes (request.is_json, request.form,
\* request.data, none of them); payload is the parsed content, or
\* [t |-> "invalid"] for bytes that do not parse.
extract_request_body(body) ==
    CASE body.ctype = "json" ->
           \* request.get_json(silent=True) or {}, then body.keys() in the log
           IF body.payload.t = "invalid" \/ ~Truthy(body.payload)
           THEN Ok(EmptyMap)
           ELSE IF body.payload.t = "dict" THEN Ok(body.payload.d)
           ELSE Raised
      [] body.ctype = "form" -> Ok(body.payload.d)
      [] body.ctype = "raw" ->
           \* json.loads(...) and body.keys() inside try/except
           IF body.payload.t = "dict" THEN Ok(body.payload.d) ELSE Ok(EmptyMap)
      [] OTHER -> Ok(EmptyMap)

----------------------------------------------------------------------------
(* gate_middleware.validate_request *)

\* What the before_request hook answers: "allow" (it returns None and the
\* request goes on to the application's handlers), "403" or "504".
\* checks lists the steps it executed, in order; rule is the position of the
\* rule found (0: none); st and pcache are the globals it leaves.
Answer(status, checks, rule, st, pcache) ==
    [status |-> status, checks |-> checks, rule |-> rule, st |-> st,
     pcache |-> pcache]

\* Mutant: an exception of the body check is not caught; the framework
\* answers 500 for it.
BodyStep_uncaught(st, pcache, idx, actual_body, body_ok) ==
    IF ~actual_body.ok
    THEN Answer("504", <<"find", "method", "headers", "rqid", "extract">>, idx,
                st, pcache)
    ELSE IF ~body_ok.ok
    THEN Answer("500", <<"find", "method", "headers", "rqid", "extract", "body">>,
                idx, st, pcache)
    ELSE Answer(IF body_ok.val THEN "allow" ELSE "403",
                <<"find", "method", "headers", "rqid", "extract", "body">>, idx,
                st, pcache)

\* The body check, once extract_request_body has returned or raised.
BodyStep(st, pcache, idx, actual_body, body_ok) ==
    IF ~actual_body.ok
    THEN Answer("504", <<"find", "method", "headers", "rqid", "extract">>, idx,
                st, pcache)
    ELSE IF ~body_ok.ok
    THEN Answer("504", <<"find", "method", "headers", "rqid", "extract", "body">>,
                idx, st, pcache)
    ELSE Answer(IF body_ok.val THEN "allow" ELSE "403",
                <<"find", "method", "headers", "rqid", "extract", "body">>, idx,
                st, pcache)

BodyCheck(st, pcache, idx, rule, actual_body) ==
    BodyStep(st, pcache, idx, actual_body,
             IF actual_body.ok
             THEN validate_body_structure(rule.body, actual_body.val)
             ELSE Raised)

\* Mutant: the request-id check runs before the header check.
Checks_rqid_first(st, pcache, idx, rule, req) ==
    IF ~validate_method(rule.method, req.method)
    THEN Answer("403", <<"find", "method">>, idx, st, pcache)
    ELSE IF ~validate_rqid(rule.rqid, req.headers)
    THEN Answer("403", <<"find", "method", "rqid">>, idx, st, pcache)
    ELSE IF ~validate_headers_exact(rule.headers, req.headers)
    THEN Answer("403", <<"find", "method", "rqid", "headers">>, idx, st, pcache)
    ELSE BodyCheck(st, pcache, idx, rule, extract_request_body(req.body))

\* The checks of the rule found, in the order of validate_request.
Checks(st, pcache, idx, rule, req) ==
    IF ~validate_method(rule.method, req.method)
    THEN Answer("403", <<"find", "method">>, idx, st, pcache)
    ELSE IF ~validate_headers_exact(rule.headers, req.headers)
    THEN Answer("403", <<"find", "method", "headers">>, idx, st, pcache)
    ELSE IF ~validate_rqid(rule.rqid, req.headers)
    THEN Answer("403", <<"find", "method", "headers", "rqid">>, idx, st, pcache)
    ELSE BodyCheck(st, pcache, idx, rule, extract_request_body(req.body))

AfterFind(st, rules, m, req) ==
    IF ~m.ok THEN Answer("504", <<"find">>, 0, st, m.cache)
    ELSE IF m.idx = 0 THEN Answer("403", <<"find">>, 0, st, m.cache)
    ELSE Checks(st, m.cache, m.idx, rules[m.idx], req)

AfterLoad(ld, pcache, req) ==
    IF ld.raised THEN Answer("504", <<"find">>, 0, ld.st, pcache)
    ELSE AfterFind(ld.st, ld.rules,
                   find_matching_rule(ld.rules, req.path, pcache), req)

\* The try block of validate_request.
RunChecks(st, pcache, doc, req) == AfterLoad(load_schemas(st, doc), pcache, req)

\* Mutant: the hook does not look at the health flag.
validate_request_unguarded(st, pcache, doc, req) == RunChecks(st, pcache, doc, req)

\* Mutant: an interception that ends in an exception marks the gate
\* unhealthy.
Tripped(a) ==
    IF a.status = "504"
    THEN Answer("504", a.checks, a.rule,
                [cache |-> a.st.cache, healthy |-> FALSE,
                 error |-> Atom("interception failed"), reads |-> a.st.reads],
                a.pcache)
    ELSE a
validate_request_trips(st, pcache, doc, req) ==
    IF ~st.healthy THEN Answer("504", <<>>, 0, st, pcache)
    ELSE Tripped(RunChecks(st, pcache, doc, req))

validate_request(st, pcache, doc, req) ==
    IF ~st.healthy THEN Answer("504", <<>>, 0, st, pcache)
    ELSE RunChecks(st, pcache, doc, req)

\* The globals of gate.py as load_schemas sees them.
Globals ==
    [cache |-> schemas_cache, healthy |-> gate_healthy,
     error |-> gate_init_error, reads |-> doc_reads]

\* The hook has answered a to the request req.
Respond(req, a) ==
    /\ schemas_cache' = a.st.cache
    /\ gate_healthy' = a.st.healthy
    /\ gate_init_error' = a.st.error
    /\ doc_reads' = a.st.reads
    /\ compiled_patterns_cache' = a.pcache
    /\ gate_context' =
           IF a.status = "allow"
           THEN [validated |-> TRUE, rule |-> a.st.cache.l[a.rule].name]
           ELSE gate_context
    /\ last' = [op |-> "validate_request", req |-> req, status |-> a.status,
                checks |-> a.checks, rule |-> a.rule, ret |-> PyNone]

\* The hook runs for the request req.
BeforeRequest(req) ==
    /\ pc = "serving"
    /\ hooks > 0
    /\ Respond(req, validate_request(Globals, compiled_patterns_cache, document,
                                     req))
    /\ UNCHANGED <<document, hooks, pc, threads>>
    /\ UNCHANGED maintenance

----------------------------------------------------------------------------
(* init_gate *)

\* The f-string of the rule listing raises TypeError: format(None, '7') for
\* a rule without method, format(None, '30') for a rule whose path is null.
RuleListingRaises(rules) ==
    \E i \in 1..Len(rules) : rules[i].method.t = "none" \/ rules[i].path.t = "none"

\* The globals init_gate leaves once load_schemas has returned or raised.
Started(ld, listing_raises) ==
    /\ schemas_cache' = ld.st.cache
    /\ doc_reads' = ld.st.reads
    /\ gate_healthy' = IF ld.raised \/ listing_raises THEN FALSE
                       ELSE ld.st.healthy
    /\ gate_init_error' =
           IF ld.raised THEN ld.error
           ELSE IF listing_raises
           THEN Atom("unsupported format string passed to NoneType.__format__")
           ELSE ld.st.error

StartedWith(ld) == Started(ld, ~ld.raised /\ RuleListingRaises(ld.rules))

init_gate ==
    /\ pc = "boot"
    /\ StartedWith(load_schemas(Globals, document))
    /\ hooks' = hooks + 1
    /\ pc' = "serving"
    /\ last' = [op |-> "init_gate", req |-> PyNone, status |-> "", checks |-> <<>>,
                rule |-> 0, ret |-> PyNone]
    /\ UNCHANGED <<document, compiled_patterns_cache, gate_context, threads>>
    /\ UNCHANGED maintenance

----------------------------------------------------------------------------
(* The documents and the requests of the model *)

MaxRules == 2       \* rule entries in a document
MaxDeclared == 2    \* header entries declared by a rule
MaxHeaders == 2     \* headers of a request
MaxReads == 2       \* times the document is opened by direct calls of load_schemas
MaxThreads == 2     \* threads that call load_schemas concurrently

\* Sequences over S of length lo..hi.
SeqsOf(S, lo, hi) == UNION {[1..n -> S] : n \in lo..hi}

RawRule(path, method, headers, body, rqid) ==
    Dict([path |-> path, method |-> method, headers |-> headers, body |-> body,
          rqid |-> rqid])
Entry(name, rule) == Dict([name |-> name, rule |-> rule])
Hdr(name, value) == [name |-> name, value |-> value]
Item(k, p) == [k |-> k, p |-> p]
OkDoc(api) == [t |-> "ok", v |-> api]

\* Documents load_schemas rejects.
BadDocs ==
    {[t |-> k, v |-> <<>>] :
        k \in {"missing", "yamlerror", "nogate", "gatenull", "apinotlist"}}

Uuid == <<"h8", "-", "h4", "-", "h4", "-", "h4", "-", "h12">>

PathA == <<"/", "a">>
PathAB == <<"/", "a", "b">>
PathB == <<"/", "b">>
PathC == <<"/", "c">>

\* The rule entries of the documents of Spec.
GateEntries ==
    { Entry(Atom("get_a"),
            RawRule(Str(PathA), Atom("get"), Absent, Str(<<"*">>), Absent)),
      Entry(Atom("post_a"),
            RawRule(Str(PathA), Atom("POST"), Absent, Str(<<"*">>), Absent)),
      Entry(Atom("strict_ab"),
            RawRule(Str(PathAB), Atom("GET"),
                    List(<<Dict(Hdr(Atom("X-Key"), Str(<<"a">>)))>>),
                    List(<<Dict(<<Item("id", Str(<<"\\d+">>))>>)>>), PyTrue)),
      Entry(Absent,
            RawRule(Str(<<"/", "b", "$">>), Absent, Absent, Absent, Absent)),
      Entry(Atom("broken"),
            RawRule(Str(<<"/", "(">>), Atom("GET"), Absent, Str(<<"*">>), Absent)),
      Entry(Atom("code_ab"),
            RawRule(Str(PathAB), Atom("get"), Absent,
                    List(<<Dict(<<Item("id", Num(<<"4", "2">>))>>)>>), Absent)),
      Entry(Atom("nopath"),
            RawRule(Absent, Atom("GET"), Absent, Str(<<"*">>), Absent)),
      Entry(Atom("norule"), Absent) }

GateDocs == BadDocs \cup {OkDoc(api) : api \in SeqsOf(GateEntries, 0, MaxRules)}

JsonBody(payload) == [ctype |-> "json", payload |-> payload]
FormBody(payload) == [ctype |-> "form", payload |-> payload]
RawBody(payload) == [ctype |-> "raw", payload |-> payload]
NoBody == [ctype |-> "none", payload |-> PyNone]
Invalid == [t |-> "invalid"]

Request(path, method, sent, body) ==
    [path |-> path, method |-> method, headers |-> EnvironHeaders(sent),
     body |-> body]

\* The requests of Spec.
GateRequests ==
    {Request(p, m, <<>>, NoBody) : p \in {PathA, PathAB, PathB, PathC},
                                   m \in {"GET", "post"}}
    \cup
    {Request(PathAB, "get", h, b) :
        h \in { <<>>,
                <<Hdr("x-key", <<"a">>)>>,
                <<Hdr("x-key", <<"b">>), Hdr("rqid", Uuid)>>,
                <<Hdr("X-KEY", <<"a">>), Hdr("RQID", Uuid)>>,
                <<Hdr("X-Key", <<"a">>), Hdr("Rqid", <<"not-a-uuid">>)>> },
        b \in { NoBody,
                JsonBody(Dict(<<Item("id", Str(<<"4", "2">>))>>)),
                JsonBody(Dict(<<Item("id", Str(<<"a", "b">>))>>)),
                JsonBody(List(<<Num(<<"1">>)>>)) }}

----------------------------------------------------------------------------
(* The gateway from start-up on *)

----------------------------------------------------------------------------
(* config_read.py: the reader of the configuration service *)

\* What the configuration service does with a GET at present: the request
\* times out, the connection is refused, or it is answered with a status and
\* a body (text that is not JSON, or a JSON object with or without "value").
NoAnswer(why) == [mode |-> why, status |-> 0, body |-> PyNone]
HttpAnswer(status, body) == [mode |-> "http", status |-> status, body |-> body]
NotJson == [t |-> "text", has |-> FALSE, value |-> PyNone]
JsonObject(has, value) == [t |-> "object", has |-> has, value |-> value]

\* The value the service yields to a read at present (None: no value).
Yields(svc) ==
    IF svc.mode = "http" /\ svc.status < 400 /\ svc.body.t = "object"
       /\ svc.body.has
    THEN svc.body.value
    ELSE PyNone

\* A call that returned ret, with the caches it left and whether it sent a
\* request to the service.
Fetched(ret, lru, cache, contacted) ==
    [ret |-> ret, lru |-> lru, cache |-> cache, contacted |-> contacted]

read_config(lru, cache, svc, key) ==
    IF key \in DOMAIN cache THEN Fetched(cache[key], lru, cache, FALSE)
    ELSE IF svc.mode # "http" \/ svc.status >= 400 \/ svc.body.t # "object"
            \/ ~svc.body.has
    THEN Fetched(PyNone, lru, cache, TRUE)
    ELSE Fetched(svc.body.value, lru, (key :> svc.body.value) @@ cache, TRUE)

\* functools.lru_cache: the result of the wrapped call is stored under the
\* arguments, whatever it is.
Memoized(key, r) == Fetched(r.ret, (key :> r.ret) @@ r.lru, r.cache, r.contacted)

read_config_param(lru, cache, svc, key) ==
    IF key \in DOMAIN lru THEN Fetched(lru[key], lru, cache, FALSE)
    ELSE Memoized(key, read_config(lru, cache, svc, key))

\* A readiness answer, the cache it leaves, whether the service was probed.
Probed(ret, ready, contacted) ==
    [ret |-> ret, ready |-> ready, contacted |-> contacted]

\* Mutant: only a positive result of the probe is cached.
is_config_service_ready_retries(ready, svc) ==
    IF ready # PyNone THEN Probed(ready, ready, FALSE)
    ELSE IF svc.mode = "http" /\ svc.status = 200
    THEN Probed(PyTrue, PyTrue, TRUE)
    ELSE Probed(PyFalse, PyNone, TRUE)

is_config_service_ready(ready, svc) ==
    IF ready # PyNone THEN Probed(ready, ready, FALSE)
    ELSE IF svc.mode = "http" /\ svc.status = 200
    THEN Probed(PyTrue, PyTrue, TRUE)
    ELSE Probed(PyFalse, PyFalse, TRUE)

----------------------------------------------------------------------------
(* database_connector.py: _get_config_param_with_retry *)

MaxRetries == 3     \* max_retries, the attempts of _get_config_param_with_retry

\* The parameters _load_configuration asks for, in its order.
ConfigParams == <<"db/master_host", "db/master_port">>

\* The locals of _get_config_param_with_retry for parameter k: the attempts
\* made, how many of them sent a request to the service, and what the
\* service yielded at the time of each.
Retry(at, k, attempt, queried, offered, ret) ==
    [op |-> "retry", pc |-> at, k |-> k, attempt |-> attempt,
     queried |-> queried, offered |-> offered, ret |-> ret]

\* One pass of the loop: value is what read_config_param returned.
AfterAttempt(c, r, offer) ==
    Retry(IF r.ret # PyNone THEN "returned"
          ELSE IF c.attempt + 1 < MaxRetries THEN "running"
          ELSE "raised",
          c.k, c.attempt + 1, c.queried + (IF r.contacted THEN 1 ELSE 0),
          Append(c.offered, offer), r.ret)

----------------------------------------------------------------------------
(* migration.py: run_migrations *)

MaxMigrations == 4  \* migration files in the directory migrations/

\* The files NNN-name.sql of the directory, named by their rank in the order
\* of their names.
MigrationFiles == 1..MaxMigrations

\* sorted(): the members of a set of files in ascending order.
RECURSIVE Sorted(_)
Sorted(files) ==
    IF files = {} THEN <<>>
    ELSE <<CHOOSE f \in files : \A g \in files : f <= g>>
         \o Sorted(files \ {CHOOSE f \in files : \A g \in files : f <= g})

_get_pending_migrations(applied, all_files) ==
    SelectSeq(Sorted(all_files),
              LAMBDA f : f \notin DOMAIN applied \/ applied[f] = "error")

_update_migration_cache(complete, has_errors, pending_count) ==
    [complete |-> complete, checked |-> TRUE, has_errors |-> has_errors,
     pending_count |-> pending_count]

\* apply_migration: the statements of the file succeed or one of them fails;
\* after a failure the error is recorded in the table, unless writing the
\* record fails too.
apply_migration(table, file, ok, recorded) ==
    [ret |-> ok,
     table |-> IF ok THEN (file :> "success") @@ table
               ELSE IF recorded THEN (file :> "error") @@ table
               ELSE table]

\* The locals of run_migrations: the table as read at the start, the pending
\* list, the files passed to apply_migration and those applied.
Run(at, before, pending, tried, applied) ==
    [op |-> "run_migrations", pc |-> at, before |-> before,
     pending |-> pending, tried |-> tried, applied |-> applied]

\* The state after a pass of the loop of run_migrations.
Pass(table, cache, c) == [table |-> table, cache |-> cache, call |-> c]

\* Mutant: a failed migration does not stop the run.
RunStep_continues(cache, c, file, r) ==
    IF Len(c.tried) + 1 = Len(c.pending)
    THEN Pass(r.table,
              _update_migration_cache(r.ret /\ c.tried = c.applied,
                                      ~(r.ret /\ c.tried = c.applied), 0),
              Run("returned", c.before, c.pending, Append(c.tried, file),
                  IF r.ret THEN Append(c.applied, file) ELSE c.applied))
    ELSE Pass(r.table, cache,
              Run("running", c.before, c.pending, Append(c.tried, file),
                  IF r.ret THEN Append(c.applied, file) ELSE c.applied))

\* One pass of the loop: r is what apply_migration did with the file.
RunStep(cache, c, file, r) ==
    IF ~r.ret
    THEN Pass(r.table,
              _update_migration_cache(FALSE, TRUE,
                                      Len(c.pending) - Len(c.applied)),
              Run("raised", c.before, c.pending, Append(c.tried, file),
                  c.applied))
    ELSE IF Len(c.applied) + 1 = Len(c.pending)
    THEN Pass(r.table, _update_migration_cache(TRUE, FALSE, 0),
              Run("returned", c.before, c.pending, Append(c.tried, file),
                  Append(c.applied, file)))
    ELSE Pass(r.table, cache,
              Run("running", c.before, c.pending, Append(c.tried, file),
                  Append(c.applied, file)))

----------------------------------------------------------------------------
(* The maintenance modules at import *)

NoMaintenanceCall == [op |-> "none", pc |-> "idle"]

InitMaintenance ==
    /\ service = NoAnswer("refused")
    /\ config_cache = <<>>
    /\ config_service_ready_cache = PyNone
    /\ lru_cache = <<>>
    /\ applied_migrations = <<>>
    /\ migration_status_cache =
           [complete |-> FALSE, checked |-> FALSE, has_errors |-> FALSE,
            pending_count |-> 0]
    /\ call = NoMaintenanceCall

NoCall == [op |-> "none", req |-> PyNone, status |-> "", checks |-> <<>>,
           rule |-> 0, ret |-> PyNone]

InitWith(docs) ==
    /\ document \in docs
    /\ schemas_cache = PyNone
    /\ compiled_patterns_cache = <<>>
    /\ gate_healthy = TRUE
    /\ gate_init_error = PyNone
    /\ hooks = 0
    /\ gate_context = PyNone
    /\ pc = "boot"
    /\ doc_reads = 0
    /\ threads = <<>>
    /\ last = NoCall
    /\ InitMaintenance

Init == InitWith(GateDocs)

Next ==
    \/ init_gate
    \/ \E req \in GateRequests : BeforeRequest(req)

Spec == Init /\ [][Next]_vars

(* The gateway with a monitor that asks for its status *)

\* get_gate_status() in the state st of the globals.
get_gate_status(st) ==
    [healthy |-> st.healthy, error |-> st.error,
     rules_loaded |-> IF Truthy(st.cache) THEN Len(st.cache.l) ELSE 0]

GetGateStatus ==
    /\ last' = [op |-> "get_gate_status", req |-> PyNone, status |-> "",
                checks |-> <<>>, rule |-> 0, ret |-> get_gate_status(Globals)]
    /\ UNCHANGED <<document, schemas_cache, compiled_patterns_cache, gate_healthy,
                   gate_init_error, hooks, gate_context, pc, doc_reads, threads>>
    /\ UNCHANGED maintenance

NextStatus == Next \/ GetGateStatus

SpecStatus == Init /\ [][NextStatus]_vars

----------------------------------------------------------------------------
(* load_schemas called directly, with the document changing on disk *)

\* The entries of the documents of SpecLoad: two rules, a rule without a
\* name, an entry that is not a mapping, an entry without the key 'rule',
\* and an entry whose rule is not a mapping (normalize_rule raises).
LoadEntries ==
    { Entry(Atom("get_a"),
            RawRule(Str(PathA), Atom("get"), Absent, Str(<<"*">>), Absent)),
      Entry(Atom("strict_ab"),
            RawRule(Str(PathAB), Atom("GET"),
                    List(<<Dict(Hdr(Atom("X-Key"), Str(<<"a">>)))>>),
                    List(<<Dict(<<Item("id", Str(<<"\\d+">>))>>)>>), PyTrue)),
      Entry(Absent,
            RawRule(Str(PathB), Atom("GET"), Absent, Absent, Absent)),
      Atom("text"),
      Entry(Atom("norule"), Absent),
      Entry(Atom("textrule"), Atom("text")) }

LoadDocs == BadDocs \cup {OkDoc(api) : api \in SeqsOf(LoadEntries, 0, MaxRules)}

\* The globals and the result a call of load_schemas() leaves; the call is
\* recorded with the document that was on disk when it was made.
Returned(ld) ==
    /\ schemas_cache' = ld.st.cache
    /\ gate_healthy' = ld.st.healthy
    /\ gate_init_error' = ld.st.error
    /\ doc_reads' = ld.st.reads
    /\ last' = [op |-> "load_schemas", req |-> document,
                status |-> IF ld.raised THEN "raised" ELSE "returned",
                checks |-> <<>>, rule |-> 0,
                ret |-> IF ld.raised THEN PyNone ELSE List(ld.rules)]

\* A caller invokes load_schemas().
CallLoadSchemas ==
    /\ schemas_cache # PyNone \/ doc_reads < MaxReads
    /\ Returned(load_schemas(Globals, document))
    /\ UNCHANGED <<document, compiled_patterns_cache, hooks, gate_context, pc,
                   threads>>
    /\ UNCHANGED maintenance

\* The documents schemas.yaml is replaced by: the rejected ones, the empty
\* rule list and the lists of one entry.
RewriteDocs == BadDocs \cup {OkDoc(api) : api \in SeqsOf(LoadEntries, 0, 1)}

\* schemas.yaml is replaced on disk.
Rewrite ==
    /\ document' \in RewriteDocs \ {document}
    /\ UNCHANGED <<schemas_cache, compiled_patterns_cache, gate_healthy,
                   gate_init_error, hooks, gate_context, pc, doc_reads, threads,
                   last>>
    /\ UNCHANGED maintenance

InitLoad == InitWith(LoadDocs)
NextLoad == CallLoadSchemas \/ Rewrite
SpecLoad == InitLoad /\ [][NextLoad]_vars

----------------------------------------------------------------------------
(* load_schemas run by several threads, statement by statement *)

\* A thread is at "idle" (about to call), "read" (the cache was None: about
\* to open the file), "loop" (in the loop over api_rules, then at the
\* assignment of the cache), "flag" (at _gate_healthy = True), "reason" (at
\* _gate_init_error = None) or "done".  api, rules and idx are its locals
\* api_rules, normalized_rules and the loop index.
Thread(at, api, rules, idx) == [pc |-> at, api |-> api, rules |-> rules, idx |-> idx]
Idle == Thread("idle", <<>>, <<>>, 0)
Done == Thread("done", <<>>, <<>>, 0)

LoaderCall(status, ret) ==
    [op |-> "load_schemas", req |-> document, status |-> status, checks |-> <<>>,
     rule |-> 0, ret |-> ret]

\* if _schemas_cache is not None: return _schemas_cache
Enter(t) ==
    /\ threads[t].pc = "idle"
    /\ IF schemas_cache # PyNone
       THEN /\ threads' = [threads EXCEPT ![t] = Done]
            /\ last' = LoaderCall("returned", schemas_cache)
       ELSE /\ threads' = [threads EXCEPT ![t] = Thread("read", <<>>, <<>>, 0)]
            /\ last' = last
    /\ UNCHANGED <<document, schemas_cache, compiled_patterns_cache, gate_healthy,
                   gate_init_error, hooks, gate_context, pc, doc_reads>>
    /\ UNCHANGED maintenance

\* The file is looked for, opened, parsed and its shape checked; a failure
\* is recorded and raised.
Read(t) ==
    /\ threads[t].pc = "read"
    /\ IF document.t = "ok"
       THEN /\ threads' = [threads EXCEPT ![t] = Thread("loop", document.v, <<>>, 0)]
            /\ doc_reads' = doc_reads + 1
            /\ UNCHANGED <<gate_healthy, gate_init_error, last>>
       ELSE /\ threads' = [threads EXCEPT ![t] = Done]
            /\ doc_reads' = IF document.t = "missing" THEN doc_reads
                            ELSE doc_reads + 1
            /\ gate_healthy' = FALSE
            /\ gate_init_error' = LoadErrorOf(document)
            /\ last' = LoaderCall("raised", PyNone)
    /\ UNCHANGED <<document, schemas_cache, compiled_patterns_cache, hooks,
                   gate_context, pc>>
    /\ UNCHANGED maintenance

\* Mutant: the rules are appended to the cache itself.
Collect_in_place(cache, th) ==
    [cache |-> List(LoadEntry(th.rules, th.idx, th.api[th.idx + 1])),
     th |-> Thread("loop", th.api,
                   LoadEntry(th.rules, th.idx, th.api[th.idx + 1]), th.idx + 1)]

\* One iteration of the loop over api_rules: the cache and the thread after.
Collect(cache, th) ==
    [cache |-> cache,
     th |-> Thread("loop", th.api,
                   LoadEntry(th.rules, th.idx, th.api[th.idx + 1]), th.idx + 1)]

Iterate(t) ==
    /\ threads[t].pc = "loop"
    /\ threads[t].idx < Len(threads[t].api)
    /\ schemas_cache' = Collect(schemas_cache, threads[t]).cache
    /\ threads' = [threads EXCEPT ![t] = Collect(schemas_cache, threads[t]).th]
    /\ UNCHANGED <<document, compiled_patterns_cache, gate_healthy,
                   gate_init_error, hooks, gate_context, pc, doc_reads, last>>
    /\ UNCHANGED maintenance

\* _schemas_cache = normalized_rules
Publish(t) ==
    /\ threads[t].pc = "loop"
    /\ threads[t].idx = Len(threads[t].api)
    /\ schemas_cache' = List(threads[t].rules)
    /\ threads' = [threads EXCEPT ![t].pc = "flag"]
    /\ UNCHANGED <<document, compiled_patterns_cache, gate_healthy,
                   gate_init_error, hooks, gate_context, pc, doc_reads, last>>
    /\ UNCHANGED maintenance

\* _gate_healthy = True
SetHealthy(t) ==
    /\ threads[t].pc = "flag"
    /\ gate_healthy' = TRUE
    /\ threads' = [threads EXCEPT ![t].pc = "reason"]
    /\ UNCHANGED <<document, schemas_cache, compiled_patterns_cache,
                   gate_init_error, hooks, gate_context, pc, doc_reads, last>>
    /\ UNCHANGED maintenance

\* _gate_init_error = None; return normalized_rules
ClearError(t) ==
    /\ threads[t].pc = "reason"
    /\ gate_init_error' = PyNone
    /\ threads' = [threads EXCEPT ![t] = Done]
    /\ last' = LoaderCall("returned", List(threads[t].rules))
    /\ UNCHANGED <<document, schemas_cache, compiled_patterns_cache, gate_healthy,
                   hooks, gate_context, pc, doc_reads>>
    /\ UNCHANGED maintenance

\* The entries and documents of SpecThreads.
ThreadEntries ==
    { Entry(Atom("get_a"),
            RawRule(Str(PathA), Atom("get"), Absent, Str(<<"*">>), Absent)),
      Entry(Atom("post_b"),
            RawRule(Str(PathB), Atom("POST"), Absent, Absent, Absent)),
      Entry(Atom("norule"), Absent) }

ThreadDocs ==
    {[t |-> "yamlerror", v |-> <<>>]}
    \cup {OkDoc(api) : api \in SeqsOf(ThreadEntries, 0, MaxRules)}

ThreadRequests ==
    {Request(p, "GET", <<>>, NoBody) : p \in {PathA, PathC}}

InitThreads ==
    /\ document \in ThreadDocs
    /\ schemas_cache = PyNone
    /\ compiled_patterns_cache = <<>>
    /\ gate_healthy = TRUE
    /\ gate_init_error = PyNone
    /\ hooks = 0
    /\ gate_context = PyNone
    /\ pc = "boot"
    /\ doc_reads = 0
    /\ threads = [t \in 1..MaxThreads |-> Idle]
    /\ last = NoCall
    /\ InitMaintenance

NextThreads ==
    \/ init_gate
    \/ \E req \in ThreadRequests : BeforeRequest(req)
    \/ \E t \in 1..MaxThreads :
           \/ Enter(t)
           \/ Read(t)
           \/ Iterate(t)
           \/ Publish(t)
           \/ SetHealthy(t)
           \/ ClearError(t)

SpecThreads == InitThreads /\ [][NextThreads]_vars

----------------------------------------------------------------------------
(* Requests served by several worker threads: the hook, then the handler *)

\* A worker is "idle" or at "handler": the hook has allowed its request req
\* by the rule at position rule, and the request's handler has not run yet.
Worker(at, req, rule) == [pc |-> at, req |-> req, rule |-> rule]
IdleWorker == Worker("idle", PyNone, 0)

\* The hook has answered a to the request req of worker w.
Admit(w, req, a) ==
    /\ Respond(req, a)
    /\ threads' = [threads EXCEPT
                      ![w] = IF a.status = "allow"
                             THEN Worker("handler", req, a.rule)
                             ELSE IdleWorker]

\* The before_request hook runs for the request req of worker w.
Intercept(w, req) ==
    /\ pc = "serving"
    /\ hooks > 0
    /\ threads[w].pc = "idle"
    /\ Admit(w, req, validate_request(Globals, compiled_patterns_cache, document,
                                      req))
    /\ UNCHANGED <<document, hooks, pc>>
    /\ UNCHANGED maintenance

\* The handler of worker w's request runs and reads current_app.gate_context.
Handle(w) ==
    /\ threads[w].pc = "handler"
    /\ last' = [op |-> "handler", req |-> threads[w].req, status |-> "allow",
                checks |-> <<>>, rule |-> threads[w].rule, ret |-> gate_context]
    /\ threads' = [threads EXCEPT ![w] = IdleWorker]
    /\ UNCHANGED <<document, schemas_cache, compiled_patterns_cache, gate_healthy,
                   gate_init_error, hooks, gate_context, pc, doc_reads>>
    /\ UNCHANGED maintenance

WorkerEntries ==
    { Entry(Atom("get_a"),
            RawRule(Str(PathA), Atom("get"), Absent, Str(<<"*">>), Absent)),
      Entry(Atom("get_b"),
            RawRule(Str(PathB), Atom("GET"), Absent, Str(<<"*">>), Absent)) }

WorkerDocs == {OkDoc(api) : api \in SeqsOf(WorkerEntries, 0, MaxRules)}

WorkerRequests ==
    {Request(p, "GET", <<>>, NoBody) : p \in {PathA, PathB, PathC}}

InitWorkers ==
    /\ document \in WorkerDocs
    /\ schemas_cache = PyNone
    /\ compiled_patterns_cache = <<>>
    /\ gate_healthy = TRUE
    /\ gate_init_error = PyNone
    /\ hooks = 0
    /\ gate_context = PyNone
    /\ pc = "boot"
    /\ doc_reads = 0
    /\ threads = [w \in 1..MaxThreads |-> IdleWorker]
    /\ last = NoCall
    /\ InitMaintenance

NextWorkers ==
    \/ init_gate
    \/ \E w \in 1..MaxThreads :
           \/ \E req \in WorkerRequests : Intercept(w, req)
           \/ Handle(w)

SpecWorkers == InitWorkers /\ [][NextWorkers]_vars

----------------------------------------------------------------------------
(* find_matching_rule run by several worker threads, a statement at a time *)

\* A worker thread in the loop of find_matching_rule: its request, the rule
\* it is at, the compiled pattern it holds, and the pattern texts it has
\* passed to re.compile so far.
Scanner(at, req, i, val, compiled) ==
    [pc |-> at, req |-> req, i |-> i, val |-> val, compiled |-> compiled]
IdleScanner(compiled) == Scanner("idle", PyNone, 0, PyNone, compiled)

\* The first rule from position i on that has a path (0: none).
RECURSIVE NextRule(_, _)
NextRule(rules, i) ==
    IF i > Len(rules) THEN 0
    ELSE IF Truthy(rules[i].path) THEN i
    ELSE NextRule(rules, i + 1)

\* find_matching_rule has ended with m for worker w: the rest of the hook.
EndScan(w, req, m) ==
    /\ Respond(req, AfterFind(Globals, schemas_cache.l, m, req))
    /\ threads' = [threads EXCEPT ![w] = IdleScanner(threads[w].compiled)]
    /\ UNCHANGED <<document, hooks, pc>>

\* Worker w goes on to rule i of the loop, or leaves the loop (i = 0).
MoveTo(w, req, i) ==
    IF i = 0
    THEN EndScan(w, req, [ok |-> TRUE, idx |-> 0,
                          cache |-> compiled_patterns_cache])
    ELSE /\ threads' = [threads EXCEPT
                           ![w] = Scanner("test", req, i, PyNone,
                                          threads[w].compiled)]
         /\ UNCHANGED <<document, schemas_cache, compiled_patterns_cache,
                        gate_healthy, gate_init_error, hooks, gate_context, pc,
                        doc_reads, last>>

\* The hook starts for the request req of worker w.
BeginScan(w, req) ==
    /\ pc = "serving"
    /\ hooks > 0
    /\ threads[w].pc = "idle"
    /\ IF gate_healthy /\ schemas_cache.t = "list"
       THEN MoveTo(w, req, NextRule(schemas_cache.l, 1))
       ELSE /\ Respond(req, validate_request(Globals, compiled_patterns_cache,
                                             document, req))
            /\ UNCHANGED <<document, hooks, pc, threads>>
    /\ UNCHANGED maintenance

\* compile_path_pattern: `if pattern in _compiled_patterns_cache`.
TestCached(w) ==
    /\ threads[w].pc = "test"
    /\ threads' = [threads EXCEPT
                      ![w] = IF schemas_cache.l[threads[w].i].path
                                  \in DOMAIN compiled_patterns_cache
                             THEN Scanner("match", threads[w].req, threads[w].i,
                                          compiled_patterns_cache[
                                              schemas_cache.l[threads[w].i].path],
                                          threads[w].compiled)
                             ELSE Scanner("compile", threads[w].req,
                                          threads[w].i, PyNone,
                                          threads[w].compiled)]
    /\ UNCHANGED <<document, schemas_cache, compiled_patterns_cache,
                   gate_healthy, gate_init_error, hooks, gate_context, pc,
                   doc_reads, last>>
    /\ UNCHANGED maintenance

\* compile_path_pattern: `compiled = re.compile(pattern)`.
Compile(w) ==
    /\ threads[w].pc = "compile"
    /\ IF \/ schemas_cache.l[threads[w].i].path.t # "str"
          \/ ReError(schemas_cache.l[threads[w].i].path.s)
       THEN EndScan(w, threads[w].req,
                    [ok |-> FALSE, idx |-> 0, cache |-> compiled_patterns_cache])
       ELSE /\ threads' = [threads EXCEPT
                              ![w] = Scanner("store", threads[w].req,
                                             threads[w].i,
                                             Compiled(schemas_cache.l[threads[w].i].path.s),
                                             Append(threads[w].compiled,
                                                    schemas_cache.l[threads[w].i].path))]
            /\ UNCHANGED <<document, schemas_cache, compiled_patterns_cache,
                           gate_healthy, gate_init_error, hooks, gate_context,
                           pc, doc_reads, last>>
    /\ UNCHANGED maintenance

\* compile_path_pattern: `_compiled_patterns_cache[pattern] = compiled`.
Store(w) ==
    /\ threads[w].pc = "store"
    /\ compiled_patterns_cache' =
           (schemas_cache.l[threads[w].i].path :> threads[w].val)
               @@ compiled_patterns_cache
    /\ threads' = [threads EXCEPT ![w].pc = "match"]
    /\ UNCHANGED <<document, schemas_cache, gate_healthy, gate_init_error,
                   hooks, gate_context, pc, doc_reads, last>>
    /\ UNCHANGED maintenance

\* find_matching_rule: `if compiled_pattern.match(request_path)`.
Match(w) ==
    /\ threads[w].pc = "match"
    /\ IF ReMatch(threads[w].val.re, threads[w].req.path)
       THEN EndScan(w, threads[w].req,
                    [ok |-> TRUE, idx |-> threads[w].i,
                     cache |-> compiled_patterns_cache])
       ELSE MoveTo(w, threads[w].req, NextRule(schemas_cache.l, threads[w].i + 1))
    /\ UNCHANGED maintenance

ScanEntries ==
    { Entry(Atom("get_a"),
            RawRule(Str(PathA), Atom("GET"), Absent, Str(<<"*">>), Absent)),
      Entry(Atom("broken"),
            RawRule(Str(<<"/", "(">>), Atom("GET"), Absent, Absent, Absent)) }

ScanDocs == {OkDoc(api) : api \in SeqsOf(ScanEntries, 0, MaxRules)}

ScanRequests == {Request(p, "GET", <<>>, NoBody) : p \in {PathA, PathB}}

InitScans ==
    /\ document \in ScanDocs
    /\ schemas_cache = PyNone
    /\ compiled_patterns_cache = <<>>
    /\ gate_healthy = TRUE
    /\ gate_init_error = PyNone
    /\ hooks = 0
    /\ gate_context = PyNone
    /\ pc = "boot"
    /\ doc_reads = 0
    /\ threads = [w \in 1..MaxThreads |-> IdleScanner(<<>>)]
    /\ last = NoCall
    /\ InitMaintenance

NextScans ==
    \/ init_gate
    \/ \E w \in 1..MaxThreads :
           \/ \E req \in ScanRequests : BeginScan(w, req)
           \/ TestCached(w)
           \/ Compile(w)
           \/ Store(w)
           \/ Match(w)

SpecScans == InitScans /\ [][NextScans]_vars

----------------------------------------------------------------------------
(* The configuration service and the calls that read from it *)

ServiceStates ==
    { NoAnswer("timeout"), NoAnswer("refused"), HttpAnswer(500, NotJson),
      HttpAnswer(200, JsonObject(TRUE, Num(<<"5">>))),
      HttpAnswer(200, JsonObject(TRUE, PyNone)),
      HttpAnswer(200, JsonObject(FALSE, PyNone)) }

\* The configuration service comes up, goes down or changes its answer.
ServiceChanges ==
    /\ service' \in ServiceStates \ {service}
    /\ UNCHANGED <<config_cache, config_service_ready_cache, lru_cache,
                   applied_migrations, migration_status_cache, call, last>>
    /\ UNCHANGED gate

\* _load_configuration starts: the first parameter is asked for.
LoadConfiguration ==
    /\ call.pc = "idle"
    /\ call' = Retry("running", 1, 0, 0, <<>>, PyNone)
    /\ UNCHANGED <<service, config_cache, config_service_ready_cache, lru_cache,
                   applied_migrations, migration_status_cache, last>>
    /\ UNCHANGED gate

\* read_config_param has returned r to the loop of the retry.
Attempted(r) ==
    /\ lru_cache' = r.lru
    /\ config_cache' = r.cache
    /\ call' = AfterAttempt(call, r, Yields(service))

\* One attempt of _get_config_param_with_retry (the sleep that follows it is
\* the time in which the service may change).
Attempt ==
    /\ call.op = "retry"
    /\ call.pc = "running"
    /\ Attempted(read_config_param(lru_cache, config_cache, service,
                                   ConfigParams[call.k]))
    /\ UNCHANGED <<service, config_service_ready_cache, applied_migrations,
                   migration_status_cache, last>>
    /\ UNCHANGED gate

\* _load_configuration goes on to its next parameter.
NextParam ==
    /\ call.op = "retry"
    /\ call.pc = "returned"
    /\ call.k < Len(ConfigParams)
    /\ call' = Retry("running", call.k + 1, 0, 0, <<>>, PyNone)
    /\ UNCHANGED <<service, config_cache, config_service_ready_cache, lru_cache,
                   applied_migrations, migration_status_cache, last>>
    /\ UNCHANGED gate

InitRetry == InitWith({OkDoc(<<>>)})

NextRetry == ServiceChanges \/ LoadConfiguration \/ Attempt \/ NextParam

SpecRetry == InitRetry /\ [][NextRetry]_vars

\* is_config_service_ready has answered r to the handler of /readyz.
Answered(r, db_ready, migrations_ready) ==
    /\ config_service_ready_cache' = r.ready
    /\ last' = [op |-> "readyz", req |-> PyNone,
                status |-> IF r.ret = PyTrue /\ db_ready /\ migrations_ready
                           THEN "200" ELSE "503",
                checks |-> <<>>, rule |-> 0,
                ret |-> [config_ready |-> r.ret, contacted |-> r.contacted]]

\* GET /readyz, with what the database and the migration checks say.
Readyz(db_ready, migrations_ready) ==
    /\ Answered(is_config_service_ready(config_service_ready_cache, service),
                db_ready, migrations_ready)
    /\ UNCHANGED <<service, config_cache, lru_cache, applied_migrations,
                   migration_status_cache, call>>
    /\ UNCHANGED gate

\* read_config_param has returned r to a direct caller.
Got(key, r) ==
    /\ lru_cache' = r.lru
    /\ config_cache' = r.cache
    /\ last' = [op |-> "read_config_param", req |-> PyNone, status |-> key,
                checks |-> <<>>, rule |-> 0,
                ret |-> [config_ready |-> r.ret, contacted |-> r.contacted]]

\* A parameter is read through read_config_param.
ReadConfigParam(key) ==
    /\ Got(key, read_config_param(lru_cache, config_cache, service, key))
    /\ UNCHANGED <<service, config_service_ready_cache, applied_migrations,
                   migration_status_cache, call>>
    /\ UNCHANGED gate

\* clear_config_cache: ConfigReader.clear_cache and the wrapper's cache_clear.
ClearConfigCache ==
    /\ config_cache' = <<>>
    /\ config_service_ready_cache' = PyNone
    /\ lru_cache' = <<>>
    /\ last' = [op |-> "clear_config_cache", req |-> PyNone, status |-> "",
                checks |-> <<>>, rule |-> 0, ret |-> PyNone]
    /\ UNCHANGED <<service, applied_migrations, migration_status_cache, call>>
    /\ UNCHANGED gate

InitReady == InitWith({OkDoc(<<>>)})

NextReady ==
    \/ ServiceChanges
    \/ \E db_ready, migrations_ready \in BOOLEAN :
           Readyz(db_ready, migrations_ready)
    \/ \E k \in 1..Len(ConfigParams) : ReadConfigParam(ConfigParams[k])
    \/ ClearConfigCache

SpecReady == InitReady /\ [][NextReady]_vars

----------------------------------------------------------------------------
(* run_migrations, a migration at a time *)

\* run_migrations up to its loop: the status cache is consulted, then the
\* table and the directory are read (db_ok: the reading succeeds).
BeginRun(table, cache, db_ok) ==
    IF cache.checked /\ cache.complete
    THEN Pass(table, cache, Run("returned", table, <<>>, <<>>, <<>>))
    ELSE IF ~db_ok
    THEN Pass(table, cache, Run("unread", table, <<>>, <<>>, <<>>))
    ELSE IF _get_pending_migrations(table, MigrationFiles) = <<>>
    THEN Pass(table, _update_migration_cache(TRUE, FALSE, 0),
              Run("returned", table, <<>>, <<>>, <<>>))
    ELSE Pass(table, cache,
              Run("running", table,
                  _get_pending_migrations(table, MigrationFiles), <<>>, <<>>))

\* run_migrations has come to the state st.
Becomes(st) ==
    /\ applied_migrations' = st.table
    /\ migration_status_cache' = st.cache
    /\ call' = st.call

RunMigrations ==
    /\ call.pc # "running"
    /\ \E db_ok \in BOOLEAN :
           Becomes(BeginRun(applied_migrations, migration_status_cache, db_ok))
    /\ UNCHANGED <<service, config_cache, config_service_ready_cache, lru_cache,
                   last>>
    /\ UNCHANGED gate

\* One pass of the loop of run_migrations: the next pending file is applied.
ApplyNext ==
    /\ call.op = "run_migrations"
    /\ call.pc = "running"
    /\ \E ok, recorded \in BOOLEAN :
           Becomes(RunStep(migration_status_cache, call,
                           call.pending[Len(call.tried) + 1],
                           apply_migration(applied_migrations,
                                           call.pending[Len(call.tried) + 1],
                                           ok, recorded)))
    /\ UNCHANGED <<service, config_cache, config_service_ready_cache, lru_cache,
                   last>>
    /\ UNCHANGED gate

\* The process is started again: the module globals are those at import, the
\* table is what the database holds.
Restart ==
    /\ call.op = "run_migrations"
    /\ migration_status_cache' =
           [complete |-> FALSE, checked |-> FALSE, has_errors |-> FALSE,
            pending_count |-> 0]
    /\ call' = NoMaintenanceCall
    /\ UNCHANGED <<service, config_cache, config_service_ready_cache, lru_cache,
                   applied_migrations, last>>
    /\ UNCHANGED gate

InitMigrations == InitWith({OkDoc(<<>>)})

NextMigrations == RunMigrations \/ ApplyNext \/ Restart

SpecMigrations == InitMigrations /\ [][NextMigrations]_vars

----------------------------------------------------------------------------
(* Documents of one rule, and the requests that try its checks *)

\* What a rule can declare as a header entry.
DeclaredEntries ==
    { Dict(Hdr(Atom("X-Key"), Str(<<"a">>))),
      Dict(Hdr(Atom("x-key"), Str(<<"b">>))),
      Dict(Hdr(Atom("X-ALT"), Str(<<"b">>))),
      Dict(Hdr(Atom("X-Alt"), Absent)),
      Dict(Hdr(Absent, Str(<<"a">>))),
      Atom("junk") }

\* The patterns a rule can declare for a field.
FieldPatterns ==
    {Str(<<"\\d+">>), Str(<<"\\d+", "$">>), Str(<<"(">>), Num(<<"5">>)}

\* What a rule can declare as its body.
DeclaredBodies ==
    { Absent, PyNone, List(<<>>), Str(<<"*">>), Str(<<"x">>), Num(<<"5">>),
      Dict(<<Item("id", Str(<<"\\d+">>))>>),
      List(<<Atom("id")>>),
      List(<<Dict(<<Item("id", Str(<<"\\d+">>))>>), Atom("extra")>>),
      List(<<Dict(<<Item("id", Str(<<"\\d+">>))>>),
             Dict(<<Item("id", Str(<<"a">>))>>)>>),
      List(<<Dict(<<Item("extra", Str(<<"x">>))>>),
             Dict(<<Item("id", Num(<<"5">>))>>)>>) }
    \cup {List(<<Dict(<<Item("id", p)>>)>>) : p \in FieldPatterns}

HeaderEntries ==
    {Entry(Atom("headers"),
           RawRule(Str(PathA), Atom("GET"), List(h), Str(<<"*">>), Absent)) :
        h \in SeqsOf(DeclaredEntries, 1, MaxDeclared)}

RqidEntries ==
    {Entry(Atom("rqid"), RawRule(Str(PathA), Atom("GET"), Absent, Absent, q)) :
        q \in {Absent, PyTrue, PyFalse, Atom("yes")}}

BodyEntries ==
    {Entry(Atom("body"), RawRule(Str(PathA), Atom("GET"), Absent, b, Absent)) :
        b \in DeclaredBodies}

\* The headers a client can send: names in any letter case, no name twice.
SentPool ==
    { Hdr("X-KEY", <<"a">>), Hdr("x-key", <<"b">>), Hdr("X-Key", <<"A">>),
      Hdr("X-Alt", <<"b">>), Hdr("x-alt", <<"c">>), Hdr("Accept", <<"a">>) }

NoNameTwice(sent) ==
    \A i, j \in 1..Len(sent) : i # j => Lower(sent[i].name) # Lower(sent[j].name)

SentHeaders == {h \in SeqsOf(SentPool, 0, MaxHeaders) : NoNameTwice(h)}

\* What a client can send as its request id.
RqidValues ==
    { Uuid, <<"h32">>, <<"{", "h32", "}">>,
      <<"urn:", "uuid:", "h8", "-", "h4", "-", "h4", "-", "h4", "-", "h12">>,
      <<"not-a-uuid">>, <<>>, <<"zzzzzzzzzzzzzzzzzzzzzzzzzzzzzzzz">>,
      <<"h8", "-", "h4", "-", "h4", "-", "h4", "-", "h11">> }

SentRqids ==
    {<<Hdr(n, v)>> : n \in {"Rqid", "RQID", "rqid"}, v \in RqidValues}
    \cup {<<Hdr("Accept", <<"a">>), Hdr("rqid", v)>> : v \in RqidValues}

\* The values of the fields of a request body.
FieldValues == {Str(<<"4", "2">>), Str(<<"4", "2", "a">>), Str(<<"a">>),
                Num(<<"5">>), PyNone}

\* The mappings a request body can parse to.
Mappings ==
    {EmptyMap}
    \cup {<<Item("id", v)>> : v \in FieldValues}
    \cup {<<Item("extra", v)>> : v \in FieldValues}
    \cup {<<Item("id", v), Item("extra", w)>> : v \in FieldValues, w \in {Str(<<"a">>)}}

\* The JSON values that are not objects.
NonObjects ==
    {PyNone, PyFalse, PyTrue, Num(<<"0">>), Num(<<"5">>), Str(<<>>), Str(<<"a">>),
     List(<<>>), List(<<Num(<<"1">>)>>)}

SentBodies ==
    {NoBody, JsonBody(Invalid), RawBody(Invalid)}
    \cup {JsonBody(Dict(m)) : m \in Mappings}
    \cup {RawBody(Dict(m)) : m \in Mappings}
    \cup {FormBody(Dict(m)) : m \in Mappings \ {EmptyMap}}
    \cup {JsonBody(v) : v \in NonObjects}
    \cup {RawBody(v) : v \in NonObjects}

HeaderRequests == {Request(PathA, "GET", h, NoBody) : h \in SentHeaders}
RqidRequests == {Request(PathA, "get", h, NoBody) : h \in SentRqids \cup SentHeaders}
BodyRequests == {Request(PathA, "GET", <<>>, b) : b \in SentBodies}

\* A gate started on a document of one header rule.
InitHeaders == InitWith({OkDoc(<<e>>) : e \in HeaderEntries})
NextHeaders ==
    \/ init_gate
    \/ \E req \in HeaderRequests : BeforeRequest(req)
SpecHeaders == InitHeaders /\ [][NextHeaders]_vars

\* A gate started on a document of one rule with or without request id.
InitRqid == InitWith({OkDoc(<<e>>) : e \in RqidEntries})
NextRqid ==
    \/ init_gate
    \/ \E req \in RqidRequests : BeforeRequest(req)
SpecRqid == InitRqid /\ [][NextRqid]_vars

\* A gate started on a document of one rule with a body declaration.
InitBody == InitWith({OkDoc(<<e>>) : e \in BodyEntries})
NextBody ==
    \/ init_gate
    \/ \E req \in BodyRequests : BeforeRequest(req)
SpecBody == InitBody /\ [][NextBody]_vars

----------------------------------------------------------------------------
(* What the claims speak of *)

Intercepted == last.op = "validate_request"
TableLoaded == schemas_cache.t = "list"
Table == schemas_cache.l

\* The rule's pattern is not a readable regular expression.
Malformed(rule) ==
    Truthy(rule.path) /\ (rule.path.t # "str" \/ ReError(rule.path.s))

\* The rule's pattern matches the path.
PatternMatches(rule, path) ==
    Truthy(rule.path) /\ ~Malformed(rule) /\ ReMatch(rule.path.s, path)

Matching(rules, path) == {i \in 1..Len(rules) : PatternMatches(rules[i], path)}

\* The first rule, in declaration order, whose pattern matches (0: none).
FirstMatch(rules, path) ==
    IF Matching(rules, path) = {} THEN 0
    ELSE CHOOSE i \in Matching(rules, path) :
             \A j \in Matching(rules, path) : i <= j

\* What a healthy gate whose table is the one rule `rule` answers to req.
Alone(rule, req) ==
    validate_request([cache |-> List(<<rule>>), healthy |-> TRUE,
                      error |-> PyNone, reads |-> 1], <<>>, document, req).status

----------------------------------------------------------------------------
(* C1: once the gate is Degraded (the load attempted by init_gate failed:  *)
(* the health flag is false), every interception is answered 504 and no    *)
(* interception reads the document again, fills the rule cache or changes   *)
(* the health flag or the reason.                                           *)
C1_DegradedIsPermanent ==
    [][(pc = "serving" /\ ~gate_healthy) =>
          /\ ~gate_healthy'
          /\ gate_init_error' = gate_init_error
          /\ schemas_cache' = schemas_cache
          /\ doc_reads' = doc_reads
          /\ (last'.op = "validate_request" => last'.status = "504")]_vars

\* A request was answered 504 after the load of a malformed document failed.
C1_Witness ==
    /\ pc = "serving" /\ document.t = "yamlerror"
    /\ ~gate_healthy /\ schemas_cache = PyNone /\ gate_init_error # PyNone
    /\ Intercepted /\ last.status = "504"

(* C2, as stated, for a Healthy gate: with a rule table loaded, a request   *)
(* whose path no rule's pattern matches is answered 403, whatever the       *)
(* rules of the table are.                                                  *)
C2_UnmatchedIs403 ==
    (/\ Intercepted /\ TableLoaded /\ gate_healthy
     /\ FirstMatch(Table, last.req.path) = 0)
        => last.status = "403"

(* C2, amended: with a rule table loaded, a request whose path no rule's    *)
(* pattern matches is never allowed; it is answered 403 exactly when the    *)
(* gate is Healthy and no rule of the table has a malformed pattern, and    *)
(* 504 otherwise.                                                           *)
C2_UnmatchedIsRejected ==
    (Intercepted /\ TableLoaded /\ FirstMatch(Table, last.req.path) = 0)
        => /\ last.status \in {"403", "504"}
           /\ last.status = "403" <=>
                  (gate_healthy /\ \A i \in 1..Len(Table) : ~Malformed(Table[i]))

\* An unmatched path was answered 403 by a healthy gate with a non-empty table.
C2_Witness ==
    /\ Intercepted /\ TableLoaded /\ gate_healthy /\ Len(Table) = MaxRules
    /\ \E i \in 1..Len(Table) : Truthy(Table[i].path)
    /\ FirstMatch(Table, last.req.path) = 0
    /\ last.req.method = "GET"
    /\ last.status = "403"

(* C3: after init_gate, a request whose first matching rule declares no     *)
(* method is answered 403, whatever its method.                             *)
C3_NoMethodIs403 ==
    (/\ Intercepted /\ TableLoaded
     /\ FirstMatch(Table, last.req.path) > 0
     /\ Table[FirstMatch(Table, last.req.path)].method.t = "none")
        => last.status = "403"

(* C4, as stated, for a Healthy gate: the answer to a request is the       *)
(* answer the first rule whose pattern matches its path gives on its own,   *)
(* and that rule is the one consulted.                                      *)
C4_FirstMatchDecides ==
    (/\ Intercepted /\ TableLoaded /\ gate_healthy
     /\ FirstMatch(Table, last.req.path) > 0)
        => /\ last.rule = FirstMatch(Table, last.req.path)
           /\ last.status = Alone(Table[FirstMatch(Table, last.req.path)], last.req)

\* The scan reaches rule i: the gate is Healthy and no rule before i has a
\* malformed pattern.
Reaches(i) == gate_healthy /\ \A j \in 1..(i - 1) : ~Malformed(Table[j])

(* C4, amended: when the gate is Healthy and no rule declared before the    *)
(* first matching rule has a malformed pattern, the first matching rule is  *)
(* the one consulted and the answer is the one that rule gives on its own   *)
(* (403 when its checks reject, even if a later matching rule would         *)
(* accept); otherwise the answer is 504.                                    *)
C4_FirstMatchWins ==
    (Intercepted /\ TableLoaded /\ FirstMatch(Table, last.req.path) > 0)
        => IF Reaches(FirstMatch(Table, last.req.path))
           THEN /\ last.rule = FirstMatch(Table, last.req.path)
                /\ last.status =
                       Alone(Table[FirstMatch(Table, last.req.path)], last.req)
           ELSE last.status = "504"

\* The first matching rule rejected a request that a later matching rule
\* would have accepted.
C4_Witness ==
    /\ Intercepted /\ TableLoaded /\ gate_healthy
    /\ last.rule > 0 /\ last.status = "403"
    /\ \E j \in (last.rule + 1)..Len(Table) :
           /\ PatternMatches(Table[j], last.req.path)
           /\ Alone(Table[j], last.req) = "allow"

\* The four checks of rule against req, each on its own.
MethodOk(rule, req) == validate_method(rule.method, req.method)
HeadersOk(rule, req) == validate_headers_exact(rule.headers, req.headers)
RqidOk(rule, req) == validate_rqid(rule.rqid, req.headers)
Extracted(req) == extract_request_body(req.body)
BodyRaises(rule, req) ==
    ~Extracted(req).ok \/ ~validate_body_structure(rule.body, Extracted(req).val).ok
BodyOk(rule, req) ==
    ~BodyRaises(rule, req) /\ validate_body_structure(rule.body, Extracted(req).val).val

OrderOfChecks(rule, req, status, checks) ==
    /\ ~MethodOk(rule, req) => status = "403" /\ checks = <<"find", "method">>
    /\ (MethodOk(rule, req) /\ ~HeadersOk(rule, req))
          => status = "403" /\ checks = <<"find", "method", "headers">>
    /\ (MethodOk(rule, req) /\ HeadersOk(rule, req) /\ ~RqidOk(rule, req))
          => status = "403" /\ checks = <<"find", "method", "headers", "rqid">>
    /\ (/\ MethodOk(rule, req) /\ HeadersOk(rule, req) /\ RqidOk(rule, req)
        /\ ~BodyRaises(rule, req) /\ ~BodyOk(rule, req))
          => /\ status = "403"
             /\ checks = <<"find", "method", "headers", "rqid", "extract", "body">>
    /\ status = "allow" <=>
          (/\ MethodOk(rule, req) /\ HeadersOk(rule, req) /\ RqidOk(rule, req)
           /\ BodyOk(rule, req))

(* C5: once a rule is found the checks run in the order method, headers,    *)
(* request id, body; the first check that fails ends the interception with  *)
(* 403 and nothing after it runs (the body is not extracted); the request   *)
(* is allowed exactly when all four pass.                                   *)
C5_ChecksInOrder ==
    (Intercepted /\ last.rule > 0)
        => OrderOfChecks(Table[last.rule], last.req, last.status, last.checks)

\* The header check ended an interception whose request-id check, had it
\* run, would have failed too.
C5_Witness ==
    /\ Intercepted /\ last.rule > 0
    /\ last.status = "403" /\ last.checks = <<"find", "method", "headers">>
    /\ ~RqidOk(Table[last.rule], last.req)

\* The rule the last interception found.
Found == Table[last.rule]

\* The interception got as far as step number n of
\* <<"find", "method", "headers", "rqid", "extract", "body">>.
Ran(n) == Intercepted /\ last.rule > 0 /\ Len(last.checks) >= n

\* The request header h carries a pair / a name the rule declares.
DeclaredPair(rule, h) ==
    \E j \in 1..Len(rule.headers) :
        rule.headers[j].name = Lower(h.name) /\ rule.headers[j].value = Str(h.value)
DeclaredName(rule, h) ==
    \E j \in 1..Len(rule.headers) : rule.headers[j].name = Lower(h.name)

PairsPresent(rule, req) ==
    {i \in 1..Len(req.headers) : DeclaredPair(rule, req.headers[i])}

\* Every declared entry has a name and a value.
WellDeclared(rule) ==
    \A j \in 1..Len(rule.headers) :
        rule.headers[j].name # "" /\ Truthy(rule.headers[j].value)

(* C6, as stated: for a rule that declares headers, the header check passes *)
(* if and only if exactly one declared (name, value) pair is among the      *)
(* request's headers.                                                       *)
C6_ExactlyOnePair ==
    (Ran(3) /\ Found.headers # <<>>)
        => (Ran(4) <=> Cardinality(PairsPresent(Found, last.req)) = 1)

(* C6, amended: for a rule that declares headers, the header check passes   *)
(* if and only if every declared entry has a non-empty name and value,      *)
(* exactly one declared (name, value) pair (name compared without regard to *)
(* case, value exactly) is among the request's headers, and no request      *)
(* header bears a declared name with a value not declared for it; otherwise *)
(* the request is rejected with 403.                                        *)
C6_ExactlyOnePairAndNoMismatch ==
    (Ran(3) /\ Found.headers # <<>>)
        => /\ Ran(4) <=>
                  /\ WellDeclared(Found)
                  /\ Cardinality(PairsPresent(Found, last.req)) = 1
                  /\ \A i \in 1..Len(last.req.headers) :
                         DeclaredName(Found, last.req.headers[i])
                             => DeclaredPair(Found, last.req.headers[i])
           /\ ~Ran(4) => last.status = "403"

\* Two headers of the request each carried a declared pair, and the request
\* was rejected.
C6_Witness ==
    /\ Ran(3) /\ WellDeclared(Found)
    /\ Cardinality(PairsPresent(Found, last.req)) = 2
    /\ last.status = "403"

\* The value's string form matches the pattern from its start.
FieldMatches(value, pattern) ==
    pattern.t = "str" /\ ~ReError(pattern.s) /\ ReMatch(pattern.s, PyStr(value))

AllFieldsMatch(declared, actual) ==
    \A i \in 1..Len(declared) :
        /\ declared[i].k \in Keys(actual)
        /\ FieldMatches(DictGet(actual, declared[i].k), declared[i].p)

FieldMap(rule) == rule.body.t = "dict" /\ rule.body.d # EmptyMap

(* C7: for a FieldMap rule, a request whose body check runs is allowed if   *)
(* and only if the keys of its body are exactly the declared fields and     *)
(* every declared field's value matches its pattern; a missing declared     *)
(* field or an undeclared extra field gives 403, and so does a value that   *)
(* does not match its pattern (when the check returns rather than raises).  *)
C7_FieldMapExact ==
    (Ran(5) /\ FieldMap(Found) /\ Extracted(last.req).ok)
        => /\ last.status = "allow" <=>
                  /\ Keys(Found.body.d) = Keys(Extracted(last.req).val)
                  /\ AllFieldsMatch(Found.body.d, Extracted(last.req).val)
           /\ Keys(Found.body.d) # Keys(Extracted(last.req).val)
                  => last.status = "403"
           /\ (/\ Keys(Found.body.d) = Keys(Extracted(last.req).val)
               /\ ~AllFieldsMatch(Found.body.d, Extracted(last.req).val)
               /\ ~BodyRaises(Found, last.req))
                  => last.status = "403"

\* A body with the declared field and one more was rejected, though the
\* declared field's value matches its pattern.
C7_Witness ==
    /\ Ran(5) /\ FieldMap(Found) /\ Extracted(last.req).ok
    /\ Keys(Found.body.d) = {"id"}
    /\ Keys(Extracted(last.req).val) = {"id", "extra"}
    /\ FieldMatches(DictGet(Extracted(last.req).val, "id"),
                    DictGet(Found.body.d, "id"))
    /\ last.status = "403"

(* C8: for a rule whose body shape is Empty, a request that passed the      *)
(* method, header and request-id checks is allowed if and only if the       *)
(* extraction yields a body without keys; a body with one or more keys is   *)
(* rejected with 403.                                                       *)
C8_EmptyBody ==
    (Ran(5) /\ Found.body = Dict(EmptyMap))
        => /\ last.status = "allow" <=>
                  (Extracted(last.req).ok /\ Keys(Extracted(last.req).val) = {})
           /\ (Extracted(last.req).ok /\ Keys(Extracted(last.req).val) # {})
                  => last.status = "403"

\* A form body with a field was rejected by a rule that expects no body.
C8_Witness ==
    /\ Ran(5) /\ Found.body = Dict(EmptyMap)
    /\ last.req.body.ctype = "form"
    /\ Keys(Extracted(last.req).val) # {}
    /\ last.status = "403"

(* C9: for a rule whose body shape is Wildcard, a request that passed the   *)
(* method, header and request-id checks is allowed, whatever its body.      *)
C9_WildcardAllowsAnyBody ==
    (Ran(5) /\ Found.body = Str(<<"*">>)) => last.status = "allow"

\* The request carries a header named Rqid whose value parses as a UUID.
HasValidRqid(req) ==
    \E i \in 1..Len(req.headers) :
        Lower(req.headers[i].name) = "rqid" /\ UuidParses(req.headers[i].value)

(* C10: when the rule requires a request id, the request-id check passes    *)
(* only if the request has a header named Rqid, in whatever letter case     *)
(* the client wrote it, whose value parses as a UUID, and the request is    *)
(* rejected with 403 otherwise; when the rule does not require it, the      *)
(* check passes whatever the headers are.                                   *)
C10_RequestId ==
    Ran(4) => /\ Ran(5) <=> (~Truthy(Found.rqid) \/ HasValidRqid(last.req))
              /\ ~Ran(5) => /\ last.status = "403"
                            /\ last.checks = <<"find", "method", "headers", "rqid">>

\* A request with an Rqid header that is not a UUID was rejected by a rule
\* that requires the request id.
C10_Witness ==
    /\ Ran(4) /\ Truthy(Found.rqid)
    /\ \E i \in 1..Len(last.req.headers) :
           /\ Lower(last.req.headers[i].name) = "rqid"
           /\ last.req.headers[i].value = <<"not-a-uuid">>
    /\ last.status = "403"

\* The scan for path raises: it comes to a rule with a malformed pattern
\* before it comes to a rule whose pattern matches.
FindRaises(rules, path) ==
    \E i \in 1..Len(rules) :
        /\ Malformed(rules[i])
        /\ \A j \in 1..(i - 1) : ~PatternMatches(rules[j], path)

(* C11: every interception ends in exactly one of allow, 403 and 504, and   *)
(* an exception raised while the rule is looked up, while the body is       *)
(* extracted or while the body check runs is answered 504.                  *)
C11_ExceptionsAre504 ==
    Intercepted
        => /\ last.status \in {"allow", "403", "504"}
           /\ (gate_healthy /\ TableLoaded /\ FindRaises(Table, last.req.path))
                  => (last.status = "504" /\ last.rule = 0)
           /\ (/\ last.rule > 0
               /\ MethodOk(Found, last.req)
               /\ HeadersOk(Found, last.req)
               /\ RqidOk(Found, last.req)
               /\ BodyRaises(Found, last.req))
                  => last.status = "504"

\* The body check raised (a declared field pattern that is not a string)
\* and the request was answered 504.
C11_Witness ==
    /\ Intercepted /\ last.rule > 0
    /\ Extracted(last.req).ok /\ BodyRaises(Found, last.req)
    /\ last.checks = <<"find", "method", "headers", "rqid", "extract", "body">>
    /\ last.status = "504"

(* C12: when init_gate has returned, the gate is Healthy (flag true, no     *)
(* reason) if the load succeeded, whatever the rules of the loaded table,   *)
(* and Degraded with a reason if the load failed; in both cases exactly one *)
(* interception hook is installed.                                          *)
C12_InitGateFollowsLoad ==
    pc = "serving"
        => /\ hooks = 1
           /\ TableLoaded => (gate_healthy /\ gate_init_error = PyNone)
           /\ ~TableLoaded => (~gate_healthy /\ gate_init_error # PyNone)

(* C13: once a load has succeeded, every later call of load_schemas        *)
(* returns the cached table (the same rules in the same order) and neither  *)
(* reads the document again nor changes the cache, whatever is on disk by   *)
(* then and however often it is called.                                     *)
C13_LoadIsCached ==
    [][(schemas_cache # PyNone /\ last'.op = "load_schemas")
          => /\ last'.status = "returned"
             /\ last'.ret = schemas_cache
             /\ schemas_cache' = schemas_cache
             /\ doc_reads' = doc_reads]_vars

\* load_schemas was called with an unparsable document on disk and returned
\* the table of two rules loaded before.
C13_Witness ==
    /\ last.op = "load_schemas" /\ last.req.t = "yamlerror"
    /\ last.status = "returned" /\ Len(last.ret.l) = MaxRules
    /\ last.ret = schemas_cache /\ doc_reads = 1

(* C14: a call of load_schemas that fails leaves the cache empty, the       *)
(* health flag false and a reason recorded, and raises; a call made while   *)
(* the cache is empty reads the document again, and with a valid document   *)
(* on disk it fills the cache with the document's table and sets the flag   *)
(* true and the reason to null.                                             *)
C14_FailedLoadAndRetry ==
    [][(schemas_cache = PyNone /\ last'.op = "load_schemas")
          => /\ last'.status = "raised"
                    => /\ last'.req.t # "ok"
                       /\ schemas_cache' = PyNone
                       /\ ~gate_healthy'
                       /\ gate_init_error' # PyNone
             /\ last'.req.t = "ok"
                    => /\ last'.status = "returned"
                       /\ schemas_cache' = List(NormalizedRules(last'.req.v))
                       /\ gate_healthy'
                       /\ gate_init_error' = PyNone
                       /\ doc_reads' = doc_reads + 1]_vars

\* A second read of the document succeeded after the first had failed.
C14_Witness ==
    /\ last.op = "load_schemas" /\ last.status = "returned"
    /\ doc_reads = 2
    /\ schemas_cache = last.ret /\ Len(last.ret.l) > 0
    /\ gate_healthy /\ gate_init_error = PyNone

\* The entry is a mapping with a key 'rule' whose value normalizes.
WellFormed(entry) ==
    /\ entry.t = "dict"
    /\ entry.d.rule.t # "absent"
    /\ normalize_rule(entry.d.rule).ok

\* The positions of the well-formed entries, in document order.
Kept(api) == SelectSeq([i \in 1..Len(api) |-> i], LAMBDA i : WellFormed(api[i]))

\* The table of the well-formed entries of the document, in document order.
WellFormedTable(api) ==
    [k \in 1..Len(Kept(api)) |->
        Loaded(api[Kept(api)[k]], Kept(api)[k] - 1,
               normalize_rule(api[Kept(api)[k]].d.rule).val)]

(* C15: a load from a document whose rule list holds malformed entries      *)
(* (not a mapping, without the key 'rule', or failing normalization)        *)
(* succeeds: the table is exactly the well-formed entries in document       *)
(* order, and the gate is Healthy.                                          *)
C15_MalformedEntriesSkipped ==
    [][(schemas_cache = PyNone /\ last'.op = "load_schemas" /\ last'.req.t = "ok")
          => /\ last'.status = "returned"
             /\ last'.ret = List(WellFormedTable(last'.req.v))
             /\ schemas_cache' = last'.ret
             /\ gate_healthy' /\ gate_init_error' = PyNone]_vars

\* A document whose first entry is malformed and whose second is a rule
\* was loaded as a table of that one rule.
C15_Witness ==
    /\ last.op = "load_schemas" /\ last.status = "returned"
    /\ last.req = document /\ document.t = "ok" /\ doc_reads = 1
    /\ Len(document.v) = 2
    /\ ~WellFormed(document.v[1]) /\ WellFormed(document.v[2])
    /\ Len(schemas_cache.l) = 1
    /\ gate_healthy

\* The document has a rule whose path pattern is not a readable regular
\* expression.
HasUnreadablePattern(doc) ==
    /\ doc.t = "ok"
    /\ \E i \in 1..Len(doc.v) :
           /\ WellFormed(doc.v[i])
           /\ doc.v[i].d.rule.d.path.t = "str"
           /\ ReError(doc.v[i].d.rule.d.path.s)

(* C16, as stated: when init_gate has returned, the load has failed and the *)
(* gate is Degraded if the document is missing, cannot be parsed, lacks the *)
(* top-level key, has a rule list that is not a list, or has a rule whose   *)
(* path pattern is not a readable regular expression.                       *)
C16_LoadFailsOnBadPattern ==
    (pc = "serving" /\ (document.t # "ok" \/ HasUnreadablePattern(document)))
        => (schemas_cache = PyNone /\ ~gate_healthy /\ gate_init_error # PyNone)

(* C16, amended: when init_gate has returned, the load has failed and the   *)
(* gate is Degraded with a reason if the document is missing, cannot be     *)
(* parsed, lacks the top-level key or has a rule list that is not a list.   *)
(* A rule whose path pattern is not a readable regular expression does not  *)
(* fail the load: the document's table is cached with that rule in it, and  *)
(* the gate is Healthy when every loaded rule has a method and a path.      *)
C16_LoadFailsOnBadDocument ==
    pc = "serving"
        => /\ document.t # "ok"
                  => /\ schemas_cache = PyNone
                     /\ ~gate_healthy
                     /\ gate_init_error # PyNone
           /\ document.t = "ok"
                  => /\ schemas_cache = List(NormalizedRules(document.v))
                     /\ (\A i \in 1..Len(Table) :
                             Table[i].method # PyNone /\ Table[i].path # PyNone)
                            => (gate_healthy /\ gate_init_error = PyNone)

\* A rule with an unreadable pattern is in the table of a Healthy gate, and
\* a request whose scan came to it was answered 504.
C16_Witness ==
    /\ pc = "serving" /\ HasUnreadablePattern(document)
    /\ TableLoaded /\ gate_healthy
    /\ \E i \in 1..Len(Table) : Malformed(Table[i])
    /\ Intercepted /\ last.status = "504" /\ last.checks = <<"find">>

(* C17: when several threads call load_schemas while the cache is empty,   *)
(* a valid document is read (and normalized) once only.                     *)
C17_ReadOnce ==
    (document.t = "ok" /\ pc = "boot") => doc_reads <= 1

(* C18: with loader threads and interceptions interleaved in any order,     *)
(* the cache holds either no table or the complete normalized table of the  *)
(* document, never a part of it, and once it holds a table no step (of a    *)
(* loader or of an interception) changes the table.                         *)
C18_TablePublishedWhole ==
    [][/\ \/ schemas_cache' = PyNone
          \/ /\ document.t = "ok"
             /\ schemas_cache' = List(NormalizedRules(document.v))
       /\ schemas_cache # PyNone => schemas_cache' = schemas_cache]_vars

\* An interception was answered from the complete table of two rules while
\* a loader thread had collected one of the two rules in its local list.
C18_Witness ==
    /\ Intercepted /\ last.status = "allow"
    /\ TableLoaded /\ Len(Table) = 2
    /\ \E t \in 1..MaxThreads :
           /\ threads[t].pc = "loop"
           /\ Len(threads[t].api) = 2
           /\ threads[t].idx = 1
           /\ Len(threads[t].rules) = 1

(* C19: after init_gate has returned, get_gate_status reports either       *)
(* healthy = true, error = null and rules_loaded = the number of rules in   *)
(* the table, or healthy = false, a non-null error and rules_loaded = 0.    *)
C19_TwoShapes ==
    (pc = "serving" /\ last.op = "get_gate_status")
        => \/ /\ last.ret.healthy
              /\ last.ret.error = PyNone
              /\ last.ret.rules_loaded = (IF TableLoaded THEN Len(Table) ELSE 0)
           \/ /\ ~last.ret.healthy
              /\ last.ret.error # PyNone
              /\ last.ret.rules_loaded = 0

(* C20: after init_gate has returned, no interception (allowed, answered    *)
(* 403 or answered 504) and no status query changes the health flag, the    *)
(* reason or the cached rule table.                                         *)
C20_StateIsTerminal ==
    [][pc = "serving"
          => /\ gate_healthy' = gate_healthy
             /\ gate_init_error' = gate_init_error
             /\ schemas_cache' = schemas_cache]_vars

\* The status of a Healthy gate with two rules was reported after a request
\* had been allowed.
C20_Witness ==
    /\ pc = "serving" /\ last.op = "get_gate_status"
    /\ gate_context # PyNone
    /\ last.ret.healthy /\ last.ret.rules_loaded = 2
    /\ schemas_cache = List(NormalizedRules(document.v))

(* C21: when the handler of an allowed request runs, gate_context says      *)
(* validated = true and names the rule that admitted that request, also     *)
(* while other requests are intercepted by other workers.                   *)
C21_ContextOfThisRequest ==
    last.op = "handler"
        => /\ last.ret # PyNone
           /\ last.ret.validated
           /\ last.ret.rule = Table[last.rule].name

\* The request header h bears a declared name with a value that is not
\* declared for that name.
Mismatch(rule, h) == DeclaredName(rule, h) /\ ~DeclaredPair(rule, h)

\* The headers of the request whose names the rule declares, in order.
DeclaredOnly(rule, headers) ==
    SelectSeq(headers, LAMBDA h : DeclaredName(rule, h))

(* C22: in the header check, a request header with a declared name and a    *)
(* value not declared for that name rejects the request at once (403), even *)
(* when another header carries a declared pair; headers whose names are     *)
(* not declared do not change the result; a rule without declared headers   *)
(* passes the check.                                                        *)
C22_MismatchRejects ==
    Ran(3)
        => /\ (\E i \in 1..Len(last.req.headers) :
                   Mismatch(Found, last.req.headers[i]))
                  => /\ last.status = "403"
                     /\ last.checks = <<"find", "method", "headers">>
           /\ Ran(4) <=>
                  validate_headers_exact(Found.headers,
                                         DeclaredOnly(Found, last.req.headers))
           /\ Found.headers = <<>> => Ran(4)

\* A request with one declared pair and one header of a declared name with
\* an undeclared value was rejected.
C22_Witness ==
    /\ Ran(3) /\ WellDeclared(Found)
    /\ Cardinality(PairsPresent(Found, last.req)) = 1
    /\ \E i \in 1..Len(last.req.headers) : Mismatch(Found, last.req.headers[i])
    /\ last.status = "403"

(* C23: the check of a body field never raises: for a FieldMap rule and a   *)
(* body that was extracted, the interception ends in allow or 403, and in   *)
(* 403 whenever some declared field's value does not match its pattern,     *)
(* whatever the pattern and the value are.                                  *)
C23_FieldCheckNeverRaises ==
    (Ran(5) /\ FieldMap(Found) /\ Extracted(last.req).ok)
        => /\ last.status \in {"allow", "403"}
           /\ ~AllFieldsMatch(Found.body.d, Extracted(last.req).val)
                  => last.status = "403"

\* The body the single entry of the document declares, as it was written.
DeclaredBody == document.v[1].d.rule.d.body

\* A declared body that is neither "*", nor empty or absent, nor a list.
OtherShape(raw) == Truthy(raw) /\ raw # Str(<<"*">>) /\ raw.t # "list"

(* C24: a rule whose declared body is of another shape than "*", empty or   *)
(* absent, or a list is kept with that body unchanged, and every request    *)
(* that reaches its body check is answered 403.                             *)
C24_OtherShapeIs403 ==
    (/\ Ran(6) /\ document.t = "ok" /\ Len(document.v) = 1
     /\ OtherShape(DeclaredBody))
        => /\ Found.body = DeclaredBody
           /\ last.status = "403"

\* How many times the threads 1..w have passed the text p to re.compile.
RECURSIVE Compilations(_, _)
Compilations(p, w) ==
    IF w = 0 THEN 0
    ELSE Compilations(p, w - 1)
         + Cardinality({k \in 1..Len(threads[w].compiled) :
                            threads[w].compiled[k] = p})

(* C25: over any interleaving of interceptions, each pattern text of the    *)
(* table is compiled at most once, and the compiled-pattern cache maps a    *)
(* pattern text only to the compilation of that text.                       *)
C25_CompiledOnce ==
    /\ \A i \in 1..(IF TableLoaded THEN Len(Table) ELSE 0) :
           Compilations(Table[i].path, MaxThreads) <= 1
    /\ \A p \in DOMAIN compiled_patterns_cache :
           compiled_patterns_cache[p] = Compiled(p.s)

(* C26: a rule with a malformed path pattern raises during matching. An     *)
(* interception by a Healthy gate whose scan reaches such a rule (no rule   *)
(* before it matches the path) is answered 504 by the find step, on every   *)
(* attempt; a request that an earlier rule matches is decided by that rule  *)
(* as if it were alone; and the health flag is true afterwards.             *)
C26_MalformedPatternRaises ==
    [][(/\ pc = "serving" /\ gate_healthy /\ TableLoaded
        /\ last'.op = "validate_request"
        /\ \E i \in 1..Len(Table) : Malformed(Table[i]))
          => /\ gate_healthy'
             /\ FindRaises(Table, last'.req.path)
                    => /\ last'.status = "504"
                       /\ last'.checks = <<"find">>
                       /\ \A p \in DOMAIN compiled_patterns_cache' :
                              ~ReError(p.s)
             /\ ~FindRaises(Table, last'.req.path)
                    => /\ last'.rule = FirstMatch(Table, last'.req.path)
                       /\ last'.rule > 0
                       /\ last'.status = Alone(Table[last'.rule], last'.req)]_vars

\* The scan passed a first rule that does not match, compiled its pattern,
\* and came to a second rule with a malformed pattern: 504, gate Healthy.
C26_Witness ==
    /\ Intercepted /\ TableLoaded /\ gate_healthy /\ Len(Table) = 2
    /\ ~Malformed(Table[1]) /\ Malformed(Table[2])
    /\ Table[1].path \in DOMAIN compiled_patterns_cache
    /\ ~PatternMatches(Table[1], last.req.path)
    /\ last.status = "504" /\ last.checks = <<"find">>

(* C30: when some declared header entry of the rule found has an empty or   *)
(* missing name or value, the header check fails whatever headers the       *)
(* request carries: every request that reaches the header check of that     *)
(* rule is answered 403 by that check.                                      *)
C30_MalformedDeclarationRejects ==
    (Ran(3) /\ ~WellDeclared(Found))
        => /\ last.status = "403"
           /\ last.checks = <<"find", "method", "headers">>

\* The request carried exactly one declared pair and no mismatching header,
\* and was rejected because another declared entry lacks a name or a value.
C30_Witness ==
    /\ Ran(3) /\ ~WellDeclared(Found) /\ Len(Found.headers) = 2
    /\ Cardinality(PairsPresent(Found, last.req)) = 1
    /\ \A i \in 1..Len(last.req.headers) : ~Mismatch(Found, last.req.headers[i])
    /\ last.status = "403"

(* C27: every attempt of _get_config_param_with_retry queries the service   *)
(* again; the call returns the value the service yielded on the first       *)
(* attempt on which it yielded one, and raises only when the service        *)
(* yielded no value on each of the max_retries attempts.                    *)
C27_RetryQueriesAgain ==
    call.op = "retry"
        => /\ call.queried = call.attempt
           /\ call.pc = "returned"
                  => /\ call.ret = call.offered[call.attempt]
                     /\ \A k \in 1..(call.attempt - 1) : call.offered[k] = PyNone
           /\ call.pc = "raised"
                  => /\ call.attempt = MaxRetries
                     /\ \A k \in 1..MaxRetries : call.offered[k] = PyNone
           /\ call.pc = "running"
                  => \A k \in 1..call.attempt : call.offered[k] = PyNone

(* C28: run_migrations applies the pending migrations (never applied, or    *)
(* recorded with status 'error') one at a time in ascending order of file   *)
(* name and stops at the first that fails: no file after the failed one is  *)
(* passed to apply_migration in that run, the status cache then records     *)
(* complete = false and has_errors = true, and the cache records            *)
(* complete = true only when every pending migration has succeeded.         *)
C28_StopsAtFirstFailure ==
    /\ (call.op = "run_migrations" /\ call.pc # "unread")
           => /\ call.pending =
                     SelectSeq(Sorted(MigrationFiles),
                               LAMBDA f : \/ f \notin DOMAIN call.before
                                          \/ call.before[f] = "error")
              /\ call.tried = SubSeq(call.pending, 1, Len(call.tried))
              /\ call.applied = SubSeq(call.pending, 1, Len(call.applied))
              /\ \A i \in 1..Len(call.pending) : \A j \in 1..(i - 1) :
                     call.pending[j] < call.pending[i]
              /\ call.pc \in {"running", "returned"} => call.applied = call.tried
              /\ call.pc = "raised"
                     => /\ Len(call.tried) = Len(call.applied) + 1
                        /\ ~migration_status_cache.complete
                        /\ migration_status_cache.has_errors
                        /\ migration_status_cache.checked
                        /\ \A i \in (Len(call.tried) + 1)..Len(call.pending) :
                               /\ call.pending[i] \in DOMAIN applied_migrations
                                      <=> call.pending[i] \in DOMAIN call.before
                               /\ call.pending[i] \in DOMAIN call.before
                                      => applied_migrations[call.pending[i]]
                                             = call.before[call.pending[i]]
    /\ migration_status_cache.complete
           => /\ call.op = "run_migrations" /\ call.pc = "returned"
              /\ call.applied = call.pending
              /\ \A f \in MigrationFiles :
                     /\ f \in DOMAIN applied_migrations
                     /\ applied_migrations[f] = "success"

\* A run with three pending migrations, one of them recorded as failed by an
\* earlier run, applied the first and stopped at the second.
C28_Witness ==
    /\ call.op = "run_migrations" /\ call.pc = "raised"
    /\ Len(call.pending) >= 3 /\ Len(call.applied) = 1 /\ Len(call.tried) = 2
    /\ \E f \in DOMAIN call.before : call.before[f] = "error"
    /\ applied_migrations[call.pending[1]] = "success"
    /\ call.pending[2] \in DOMAIN applied_migrations
    /\ applied_migrations[call.pending[2]] = "error"
    /\ migration_status_cache.has_errors

(* C29: the readiness of the configuration service is probed at most once   *)
(* until the cache is cleared: a call of /readyz made while a result is     *)
(* cached does not contact the service, reports the cached result and       *)
(* leaves it cached, so it answers 503 when the cached result is negative,  *)
(* whatever the service does now; the call that finds no result cached      *)
(* probes the service and caches what it found, negative results (timeout,  *)
(* refused connection, a status other than 200) included.                   *)
C29_ProbedOnce ==
    [][(last' # last /\ last'.op = "readyz")
          => /\ config_service_ready_cache # PyNone
                    => /\ ~last'.ret.contacted
                       /\ last'.ret.config_ready = config_service_ready_cache
                       /\ config_service_ready_cache' = config_service_ready_cache
                       /\ config_service_ready_cache = PyFalse
                              => last'.status = "503"
             /\ config_service_ready_cache = PyNone
                    => /\ last'.ret.contacted
                       /\ config_service_ready_cache' # PyNone
                       /\ config_service_ready_cache' = PyTrue
                              <=> (service.mode = "http" /\ service.status = 200)
                       /\ last'.ret.config_ready = config_service_ready_cache']_vars

\* The first probe failed; the service is up now, the database and the
\* migrations are ready, and /readyz answered 503 without probing again.
C29_Witness ==
    /\ config_service_ready_cache = PyFalse
    /\ service.mode = "http" /\ service.status = 200
    /\ last.op = "readyz" /\ ~last.ret.contacted
    /\ last.ret.config_ready = PyFalse
    /\ last.status = "503"

=============================================================================
